---- MODULE Spec2Model ----
(***************************************************************************)
(* A model of log-cache's in-memory envelope store (package store):        *)
(* per-source AVL indexes, the oldest-value tree used for pruning, the     *)
(* envelope count and the Expired/Ingress/Egress metrics, with the         *)
(* operations Put, truncate and Get; and of the node around it (package     *)
(* routing and LogCache.setupRouting): the routing table and SetRanges, the *)
(* ingress proxy, the BatchedIngressClient with its diode and batcher that  *)
(* forward envelopes to a peer, and the egress proxy.                       *)
(***************************************************************************)
EXTENDS Integers, Sequences, FiniteSets, TLC

\* ------------------------------------------------------------------------
\* Bounds of the model
\* ------------------------------------------------------------------------
MaxTs == 3
HistMaxTs == 4
MaxSize == 2
MaxCap == 2
MaxPuts == 4
MaxQuota == 2
GetMaxTs == 1
GetMaxPuts == 2
MaxLimit == 2
GetCap == 3
HashMax == 3
RingCap == 1
BatchSize == 2
MaxEnvs == 2
MaxSetRanges == 1
RaceReqs == 2
RaceBatch == 2
EgressMaxPuts == 1
MetaMaxPuts == 2
ClusterReqs == 2
ClusterBatch == 1
PeerSends == 1
LockMaxPuts == 3
FlushEnvs == 3
MaxNodes == 3
MaxTimeout == 2
MaxMembers == 2

Sources == {"a", "b"}
Timestamps == 0 .. MaxTs
\* loggregator_v2 message types an Envelope can carry; "None" is an envelope
\* without a message (as built by the tests' buildEnvelope).
EnvelopeTypes == {"Log", "Counter", "Gauge", "Timer", "Event"}
Nil == "nil"

VARIABLES
    size,            \* Store.size
    maxPerSource,    \* Store.maxPerSource
    indexes,         \* Store.indexes: index name -> tree (timestamp -> envelopeWrapper)
    oldestValueTree, \* Store.oldestValueTree: timestamp -> sequence of trees (by index name)
    count,           \* Store.count
    metrics,         \* the Expired / Ingress / Egress counters
    expired,         \* per-source expired counter reported by Meta
    panicked,        \* a call has panicked (nil dereference / explicit panic)
    last,            \* the most recent call: its arguments, what it removed, what it returned
    hist             \* the Puts made so far (recorded only by SpecHist)

VARIABLES
    table,           \* the routing table's published snapshot: ranges sorted by Start
    installed,       \* the mappings SetRanges has installed so far, oldest first
    handlers,        \* the Ingress.Send calls in progress, one per gRPC worker
    ring,            \* BatchedIngressClient.buffer: the diode's slots and its two indexes
    batcher,         \* the batch the flusher's Batcher is filling
    dropped,         \* the total handed to incDroppedMetric
    emitted,         \* the SendRequests BatchedIngressClient.write has sent to the peer
    peerReads,       \* the ReadRequests the peer has received
    journal,         \* every envelope sent to the node: its request and how it was routed
    ringLog          \* the envelopes set into the diode and those the flusher took out

VARIABLES
    peer,            \* the other node: its store and how many forwarded requests it has handled
    mu,              \* Store.mu: the worker holding the write side, the workers holding the read side
    callers,         \* the Put, Get and Meta calls in progress, one per worker
    clock,           \* the flusher's time: sleeps since Batcher.lastFlush, steps the batch has waited
    closing          \* LogCache.closing and the state of the gRPC server

VARIABLES
    setup,           \* setupRouting: its inputs, its loop index and the client lists it builds
    mgr,             \* groups.Manager and the DataStorage it drives
    capi             \* auth.CAPIClient: its token cache and the requests CAPI has answered

auxVars == <<setup, mgr, capi>>

moreVars == <<peer, mu, callers, clock, closing, auxVars>>

routingVars == <<table, installed, handlers, ring, batcher, dropped, emitted,
                 peerReads, journal, ringLog>>

nodeVarsButPeer == <<routingVars, mu, callers, clock, closing, auxVars>>

storeVars == <<size, maxPerSource, indexes, oldestValueTree, count, metrics,
               expired, panicked>>

nodeVars == <<table, installed, handlers, ring, batcher, dropped, emitted,
              peerReads, journal, ringLog, moreVars>>

vars == <<size, maxPerSource, indexes, oldestValueTree, count, metrics,
          expired, panicked, last, hist, table, installed, handlers, ring,
          batcher, dropped, emitted, peerReads, journal, ringLog, moreVars>>

\* ------------------------------------------------------------------------
\* avltree.Tree as an ordered map: a function from its keys to its values
\* ------------------------------------------------------------------------
EmptyTree == [k \in {} |-> Nil]

Size(t) == Cardinality(DOMAIN t)

MinOf(S) == CHOOSE x \in S : \A y \in S : x <= y

MaxOf(S) == CHOOSE x \in S : \A y \in S : x >= y

\* Tree.Left().Key: the smallest key (the caller has checked Size > 0)
Left(t) == MinOf(DOMAIN t)

\* Tree.Right().Key
Right(t) == MaxOf(DOMAIN t)

\* Tree.Put: inserts, or overwrites the value of a key that is present
TreePut(t, k, v) == [x \in (DOMAIN t) \cup {k} |-> IF x = k THEN v ELSE t[x]]

\* Tree.Remove: no effect when the key is absent
TreeRemove(t, k) == [x \in (DOMAIN t) \ {k} |-> t[x]]

\* ------------------------------------------------------------------------
\* treeStorage: timestamp -> slice of trees, never an empty slice
\* ------------------------------------------------------------------------
RECURSIVE RemoveFirst(_, _)
RemoveFirst(values, t) ==
    IF values = <<>> THEN <<>>
    ELSE IF Head(values) = t THEN Tail(values)
    ELSE <<Head(values)>> \o RemoveFirst(Tail(values), t)

tsPut(s, key, t) ==
    LET values == IF key \in DOMAIN s THEN s[key] ELSE <<>>
    IN  TreePut(s, key, Append(values, t))

tsRemove_keep(s, key, t) == s

tsRemove(s, key, t) ==
    LET values == IF key \in DOMAIN s THEN s[key] ELSE <<>>
        rest == RemoveFirst(values, t)
    IN  IF Len(rest) = 0 THEN TreeRemove(s, key) ELSE TreePut(s, key, rest)

\* treeStorage.Left dereferences s.t.Left(), which is nil for an empty tree
tsLeftPanics(s) == DOMAIN s = {}

tsLeft_right(s) == LET key == Right(s) IN <<key, s[key][1]>>

tsLeft(s) == LET key == Left(s) IN <<key, s[key][1]>>

\* ------------------------------------------------------------------------
\* The store as a value, so that Put and truncate compose
\* ------------------------------------------------------------------------
Store ==
    [indexes |-> indexes, oldestValueTree |-> oldestValueTree, count |-> count,
     Expired |-> metrics.Expired, expired |-> expired, truncated |-> {},
     panicked |-> FALSE]

\* The store NewStore returns, as a value
EmptyStore ==
    [indexes |-> [i \in {} |-> EmptyTree], oldestValueTree |-> EmptyTree,
     count |-> 0, Expired |-> 0, expired |-> [s \in Sources |-> 0],
     truncated |-> {}, panicked |-> FALSE]

DeleteIndex_keep(ix, index) == [i \in DOMAIN ix |-> IF i = index THEN EmptyTree ELSE ix[i]]

\* delete(s.indexes, index)
DeleteIndex(ix, index) == [i \in (DOMAIN ix) \ {index} |-> ix[i]]

SetIndex(ix, index, t) == [i \in (DOMAIN ix) \cup {index} |-> IF i = index THEN t ELSE ix[i]]

\* truncate's early return: nothing to do while count <= size
truncateDone_lt(st) == st.count < size

truncateDone(st) == st.count <= size

\* Store.truncate
truncate(st) ==
    IF truncateDone(st) THEN st
    ELSE IF tsLeftPanics(st.oldestValueTree)
    THEN [st EXCEPT !.count = @ - 1, !.Expired = @ + 1, !.panicked = TRUE]
    ELSE
      LET l == tsLeft(st.oldestValueTree)
          key == l[1]
          oldTree == l[2]
          ovt1 == tsRemove(st.oldestValueTree, key, oldTree)
          tr == st.indexes[oldTree]
      IN  IF Size(tr) = 0
          THEN [st EXCEPT !.count = @ - 1, !.Expired = @ + 1,
                          !.oldestValueTree = ovt1, !.panicked = TRUE]
          ELSE
            LET left == Left(tr)
                index == tr[left].index
                tr1 == TreeRemove(tr, key)
                gone == {tr[k] : k \in (DOMAIN tr) \cap {key}}
                base == [st EXCEPT !.count = @ - 1, !.Expired = @ + 1,
                                   !.expired[oldTree] = @ + Cardinality(gone),
                                   !.truncated = @ \cup gone]
            IN  IF Size(tr1) = 0
                THEN [base EXCEPT !.oldestValueTree = ovt1,
                                  !.indexes = DeleteIndex(st.indexes, index)]
                ELSE [base EXCEPT !.oldestValueTree = tsPut(ovt1, Left(tr1), oldTree),
                                  !.indexes = SetIndex(st.indexes, oldTree, tr1)]

\* Put's test that the index has reached its quota
AtCap_gt(preSize) == preSize > maxPerSource

AtCap(preSize) == preSize >= maxPerSource

\* Store.Put up to, not including, the call of truncate
PutInsert(st, e, index) ==
    LET isNew == index \notin DOMAIN st.indexes
        t == IF isNew THEN EmptyTree ELSE st.indexes[index]
        ovt0 == IF isNew THEN tsPut(st.oldestValueTree, e.Timestamp, index)
                ELSE st.oldestValueTree
        hasOldest == Size(t) > 0
        oldest == IF hasOldest THEN Left(t) ELSE 0
        preSize == Size(t)
        atCap == AtCap(preSize)
        gone == IF atCap THEN {t[k] : k \in (DOMAIN t) \cap {oldest}} ELSE {}
        t1 == IF atCap THEN TreeRemove(t, oldest) ELSE t
        t2 == TreePut(t1, e.Timestamp, [e |-> e, index |-> index])
        newOldest == Left(t2)
        ovt1 == IF oldest # newOldest /\ hasOldest
                THEN tsPut(tsRemove(ovt0, oldest, index), newOldest, index)
                ELSE ovt0
    IN  [st EXCEPT !.indexes = SetIndex(st.indexes, index, t2),
                   !.oldestValueTree = ovt1,
                   !.count = @ + Size(t2) - preSize,
                   !.Expired = IF atCap THEN @ + 1 ELSE @,
                   !.expired[index] = @ + Cardinality(gone)]

\* What the per-source cap removed in PutInsert
PutEvicted(st, e, index) ==
    IF index \in DOMAIN st.indexes /\ Size(st.indexes[index]) > 0
       /\ AtCap(Size(st.indexes[index]))
    THEN {st.indexes[index][Left(st.indexes[index])]}
    ELSE {}

PutPreSize(st, index) ==
    IF index \in DOMAIN st.indexes THEN Size(st.indexes[index]) ELSE 0

\* Store.Put
Put(e, index) ==
    /\ ~panicked
    /\ LET mid == PutInsert(Store, e, index)
           st == truncate(mid)
           \* oldestValue, _ := s.oldestValueTree.Left() for the CachePeriod gauge
           panics == st.panicked \/ tsLeftPanics(st.oldestValueTree)
       IN  /\ indexes' = st.indexes
           /\ oldestValueTree' = st.oldestValueTree
           /\ count' = st.count
           /\ metrics' = [metrics EXCEPT !.Ingress = @ + 1, !.Expired = st.Expired]
           /\ expired' = st.expired
           /\ panicked' = panics
           /\ last' = [op |-> "Put", e |-> e, index |-> index,
                       preSize |-> PutPreSize(Store, index),
                       evicted |-> PutEvicted(Store, e, index),
                       truncFrom |-> mid.count, truncated |-> st.truncated]
    /\ UNCHANGED <<size, maxPerSource>>

\* ------------------------------------------------------------------------
\* The pruner-driven truncation cycle and Meta
\* ------------------------------------------------------------------------
RECURSIVE truncateN(_, _)
truncateN(st, n) == IF n = 0 THEN st ELSE truncateN(truncate(st), n - 1)

\* One cycle of the background truncation: at most quota envelopes, each by
\* truncate
PruneCycle(quota) ==
    /\ ~panicked
    /\ LET st == truncateN(Store, quota)
       IN  /\ indexes' = st.indexes
           /\ oldestValueTree' = st.oldestValueTree
           /\ count' = st.count
           /\ metrics' = [metrics EXCEPT !.Expired = st.Expired]
           /\ expired' = st.expired
           /\ panicked' = st.panicked
           /\ last' = [op |-> "Prune", quota |-> quota, truncFrom |-> count,
                       truncated |-> st.truncated]
    /\ UNCHANGED <<size, maxPerSource>>

\* Store.Meta: one MetaInfo per index
Meta(st) ==
    [i \in DOMAIN st.indexes |->
        LET t == st.indexes[i]
        IN  [Count |-> Size(t),
             Expired |-> st.expired[i],
             OldestTimestamp |-> IF Size(t) > 0 THEN Left(t) ELSE 0,
             NewestTimestamp |-> IF Size(t) > 0 THEN Right(t) ELSE 0]]

MetaCall ==
    /\ ~panicked
    /\ last' = [op |-> "Meta", meta |-> Meta(Store)]
    /\ UNCHANGED <<size, maxPerSource, indexes, oldestValueTree, count, metrics,
                   expired, panicked>>

\* ------------------------------------------------------------------------
\* Get: the tree walk over the nodes of an index
\* ------------------------------------------------------------------------
NilNode == [nil |-> TRUE]

RECURSIVE SortedSeq(_)
SortedSeq(S) ==
    IF S = {} THEN <<>>
    ELSE LET m == MinOf(S) IN <<m>> \o SortedSeq(S \ {m})

\* The nodes of an avltree holding t: a balanced binary search tree over its
\* keys. For an even number of keys, bias picks which of the two middle keys
\* is the root.
RECURSIVE Nodes(_, _, _)
Nodes(t, keys, bias) ==
    IF keys = <<>> THEN NilNode
    ELSE LET n == Len(keys)
             r == (n + 1 + bias) \div 2
         IN  [nil |-> FALSE, Key |-> keys[r], Value |-> t[keys[r]],
              Children |-> <<Nodes(t, SubSeq(keys, 1, r - 1), bias),
                             Nodes(t, SubSeq(keys, r + 1, n), bias)>>]

Root(t, bias) == Nodes(t, SortedSeq(DOMAIN t), bias)

checkEnvelopeType_fall(e, t) ==
    IF t = Nil THEN TRUE
    ELSE CASE t = "Log" -> e.kind = "Log"
           [] t = "Counter" -> TRUE
           [] t = "Gauge" -> e.kind = "Gauge"
           [] t = "Timer" -> e.kind = "Timer"
           [] t = "Event" -> e.kind = "Event"

\* Store.checkEnvelopeType
checkEnvelopeType(e, t) ==
    IF t = Nil THEN TRUE
    ELSE CASE t = "Log" -> e.kind = "Log"
           [] t = "Counter" -> e.kind = "Counter"
           [] t = "Gauge" -> e.kind = "Gauge"
           [] t = "Timer" -> e.kind = "Timer"
           [] t = "Event" -> e.kind = "Event"

\* The visitor Get hands to treeTraverse: appends a matching envelope and
\* asks to stop once limit envelopes are collected
GetVisit(res, w, index, envelopeType, limit) ==
    LET res1 == IF w.index = index /\ checkEnvelopeType(w.e, envelopeType)
                THEN Append(res, w.e) ELSE res
    IN  [res |-> res1, stop |-> Len(res1) >= limit]

\* treeTraverse's test that a key lies at or past the end of the range
pastEnd_gt(t, q) == t > q.end

pastEnd(t, q) == t >= q.end

\* Store.treeTraverse, ascending; q carries the arguments of Get
RECURSIVE treeTraverse(_, _, _)
treeTraverse(n, q, res) ==
    IF n.nil THEN [res |-> res, stop |-> FALSE]
    ELSE
      LET t == n.Key
      IN  IF t >= q.start
          THEN LET l == treeTraverse(n.Children[1], q, res)
               IN  IF l.stop THEN l
                   ELSE IF pastEnd(t, q) THEN [res |-> l.res, stop |-> TRUE]
                   ELSE LET v == GetVisit(l.res, n.Value, q.index, q.envelopeType, q.limit)
                        IN  IF v.stop THEN v
                            ELSE treeTraverse(n.Children[2], q, v.res)
          ELSE treeTraverse(n.Children[2], q, res)

\* The descending walk: the mirror image of treeTraverse
RECURSIVE treeTraverseDescending(_, _, _)
treeTraverseDescending(n, q, res) ==
    IF n.nil THEN [res |-> res, stop |-> FALSE]
    ELSE
      LET t == n.Key
      IN  IF t < q.end
          THEN LET r == treeTraverseDescending(n.Children[2], q, res)
               IN  IF r.stop THEN r
                   ELSE IF t < q.start THEN [res |-> r.res, stop |-> TRUE]
                   ELSE LET v == GetVisit(r.res, n.Value, q.index, q.envelopeType, q.limit)
                        IN  IF v.stop THEN v
                            ELSE treeTraverseDescending(n.Children[1], q, v.res)
          ELSE treeTraverseDescending(n.Children[1], q, res)

\* The slice Store.Get returns for query q over the indexes ix
GetFrom(ix, q, bias) ==
    IF q.index \notin DOMAIN ix THEN <<>>
    ELSE IF q.descending
         THEN treeTraverseDescending(Root(ix[q.index], bias), q, <<>>).res
         ELSE treeTraverse(Root(ix[q.index], bias), q, <<>>).res

\* The slice Store.Get returns for query q
GetResult(q, bias) == GetFrom(indexes, q, bias)

\* Store.Get
Get(q, bias) ==
    /\ ~panicked
    /\ LET res == GetResult(q, bias)
       IN  /\ metrics' = [metrics EXCEPT !.Egress = @ + Len(res)]
           /\ last' = [op |-> "Get", q |-> q, res |-> res]
    /\ UNCHANGED <<size, maxPerSource, indexes, oldestValueTree, count, expired,
                   panicked>>

\* ------------------------------------------------------------------------
\* The routing table and the orchestrator
\* ------------------------------------------------------------------------
\* Node indexes: c.nodeAddrs is {this node, one peer}
NodeIndexes == {0, 1}

\* c.nodeIndex of the node modelled
localIdx == 0

\* The hash ring, 0 .. 2^64 - 1 in the program
HashSpace == 0 .. HashMax

Mid == HashMax \div 2

\* hasher(sourceID), the CRC-64 of the source id, scaled to the ring: source
\* "a" hashes into the lower half, as source-0 does (7700738999732113484),
\* source "b" into the upper half, as source-1 does (15704273932878139171)
hasher == [s \in Sources |-> IF s = "a" THEN Mid ELSE Mid + 1]

\* The ranges a SetRanges request can name for a node
RangeChoices ==
    {[Start |-> 0, End |-> Mid], [Start |-> Mid + 1, End |-> HashMax],
     [Start |-> 0, End |-> HashMax]}

\* SetRangesRequest.Ranges: node -> ranges, as a set of (node, range)
Mappings ==
    {m \in SUBSET {[Node |-> n, Start |-> r.Start, End |-> r.End] :
                      n \in NodeIndexes, r \in RangeChoices} :
        Cardinality(m) <= 2}

\* The ranges of a mapping in ascending order of Start
RECURSIVE SortRanges(_)
SortRanges(m) ==
    IF m = {} THEN <<>>
    ELSE LET r == CHOOSE x \in m : \A y \in m : x.Start <= y.Start
         IN  <<r>> \o SortRanges(m \ {r})

Valid_nogap(m) ==
    LET s == SortRanges(m)
    IN  /\ Len(s) >= 1
        /\ s[1].Start = 0
        /\ s[Len(s)].End = HashMax
        /\ \A i \in 1 .. Len(s) - 1 : s[i + 1].Start <= s[i].End + 1

\* SetRanges' validation: the ranges, in order, start at 0, end at the top of
\* the ring and each begins right after the one before it
Valid(m) ==
    LET s == SortRanges(m)
    IN  /\ Len(s) >= 1
        /\ s[1].Start = 0
        /\ s[Len(s)].End = HashMax
        /\ \A i \in 1 .. Len(s) - 1 : s[i + 1].Start = s[i].End + 1

NewTable_partial(m) == SubSeq(SortRanges(m), 1, 1)

\* The snapshot SetRanges publishes for a mapping
NewTable(m) == SortRanges(m)

\* The table before any SetRanges: the full range on the local node
DefaultTable == <<[Node |-> localIdx, Start |-> 0, End |-> HashMax]>>

Lookup_first(tbl, sourceID) == tbl[1].Node

\* RoutingTable.Lookup on a snapshot: the node whose range holds the hash,
\* -1 when no range does
Lookup(tbl, sourceID) ==
    LET h == hasher[sourceID]
        hits == {i \in 1 .. Len(tbl) : tbl[i].Start <= h /\ h <= tbl[i].End}
    IN  IF hits = {} THEN -1 ELSE tbl[MinOf(hits)].Node

\* Orchestrator.SetRanges
SetRanges(m) ==
    /\ IF Valid(m)
       THEN /\ table' = NewTable(m)
            /\ installed' = Append(installed, m)
       ELSE UNCHANGED <<table, installed>>
    /\ last' = [op |-> "SetRanges", m |-> m,
                err |-> IF Valid(m) THEN Nil ELSE "InvalidArgument",
                before |-> table]
    /\ UNCHANGED <<moreVars, storeVars, handlers, ring, batcher, dropped, emitted,
                   peerReads, journal, ringLog>>

\* ------------------------------------------------------------------------
\* The ingress proxy and the in-process client of the local store
\* ------------------------------------------------------------------------
\* The gRPC workers that can run an Ingress.Send at the same time
Handlers == {1, 2}

IdleHandler ==
    [pc |-> "idle", batch |-> <<>>, localOnly |-> FALSE, i |-> 0,
     bucket |-> <<>>, j |-> 0, seq |-> 0, ret |-> [resp |-> Nil, err |-> Nil]]

RouteOutcome_forward(node, localOnly) ==
    IF node = localIdx THEN "put" ELSE "bucket"

\* IngressReverseProxy.Send's decision for one envelope
RouteOutcome(node, localOnly) ==
    IF node = localIdx THEN "put"
    ELSE IF localOnly THEN "drop"
    ELSE "bucket"

\* Ingress.Send arrives: a worker takes the request
IngressSend(h, srcs, localOnly) ==
    /\ closing = "running"
    /\ handlers[h].pc = "idle"
    /\ LET n == Len(journal)
           req == IF n = 0 THEN 1 ELSE journal[n].req + 1
           batch == [k \in 1 .. Len(srcs) |->
                        [Timestamp |-> n + k, kind |-> "Log", SourceId |-> srcs[k]]]
       IN  /\ handlers' = [handlers EXCEPT ![h] =
                  [IdleHandler EXCEPT !.pc = "route", !.batch = batch,
                                      !.localOnly = localOnly, !.i = 1]]
           /\ journal' = journal \o
                  [k \in 1 .. Len(srcs) |->
                      [SourceId |-> srcs[k], localOnly |-> localOnly, req |-> req,
                       epoch |-> Len(installed), node |-> -1, atEpoch |-> -1,
                       outcome |-> "pending"]]
    /\ UNCHANGED <<moreVars, storeVars, last, table, installed, ring, batcher, dropped,
                   emitted, peerReads, ringLog>>

\* BatchedIngressClient.Send's return value
BatchedSendReturn_full(overflowed) ==
    IF overflowed THEN [resp |-> Nil, err |-> "ResourceExhausted"]
    ELSE [resp |-> "SendResponse{}", err |-> Nil]

BatchedSendReturn(overflowed) == [resp |-> "SendResponse{}", err |-> Nil]

\* The proxy routes the next envelope of the request: into the local store
\* through the in-process IngressClientFunc, into the peer's bucket, or
\* nowhere
RouteStep(h) ==
    /\ handlers[h].pc = "route"
    /\ LET hd == handlers[h]
           e == hd.batch[hd.i]
           node == Lookup(table, e.SourceId)
           outcome == RouteOutcome(node, hd.localOnly)
           bucket == IF outcome = "bucket" THEN Append(hd.bucket, e) ELSE hd.bucket
           more == hd.i < Len(hd.batch)
       IN  /\ IF outcome = "put"
              THEN Put(e, e.SourceId)
              ELSE UNCHANGED <<storeVars, last>>
           /\ journal' = [journal EXCEPT ![e.Timestamp] =
                  [@ EXCEPT !.node = node, !.atEpoch = Len(installed),
                            !.outcome = outcome]]
           /\ handlers' = [handlers EXCEPT ![h] =
                  IF more THEN [hd EXCEPT !.i = @ + 1, !.bucket = bucket]
                  ELSE IF bucket = <<>> THEN IdleHandler
                  ELSE [hd EXCEPT !.i = @ + 1, !.bucket = bucket, !.pc = "set",
                                  !.j = 1]]
    /\ UNCHANGED <<moreVars, table, installed, ring, batcher, dropped, emitted, peerReads,
                   ringLog>>

\* ------------------------------------------------------------------------
\* BatchedIngressClient: the diode (go-diodes OneToOne), the flusher and the
\* batcher (go-batching)
\* ------------------------------------------------------------------------
\* An empty slot of the diode (a nil bucket)
NilBucket == [seq |-> -1, data |-> [Timestamp |-> 0, kind |-> Nil, SourceId |-> Nil]]

EmptyRing ==
    [buffer |-> [x \in 0 .. RingCap - 1 |-> NilBucket], writeIndex |-> 0,
     readIndex |-> 0]

\* OneToOne.Set, first half: the writer reads writeIndex for the new bucket's
\* slot and sequence number. Set takes no lock and OneToOne is written for one
\* writer, so another worker's Set can run between the two halves.
SetRead(h) ==
    /\ handlers[h].pc = "set"
    /\ handlers' = [handlers EXCEPT ![h] =
           [@ EXCEPT !.seq = ring.writeIndex, !.pc = "store"]]
    /\ UNCHANGED <<moreVars, storeVars, last, table, installed, ring, batcher, dropped,
                   emitted, peerReads, journal, ringLog>>

\* The envelopes set into the diode that the flusher has neither taken nor
\* counted as dropped
Pending == Len(ringLog.pushed) - Len(ringLog.taken) - dropped

\* OneToOne.Set, second half: writeIndex++ and the store of the bucket. The
\* increment is not atomic: it writes back one more than the value this writer
\* read or one more than the value now there. After the last envelope of the
\* request BatchedIngressClient.Send returns.
SetStore(h) ==
    /\ handlers[h].pc = "store"
    /\ LET hd == handlers[h]
           e == hd.bucket[hd.j]
           idx == hd.seq % RingCap
           more == hd.j < Len(hd.bucket)
       IN  /\ \E w \in {hd.seq + 1, ring.writeIndex + 1} :
                 ring' = [ring EXCEPT !.writeIndex = w,
                                      !.buffer[idx] = [seq |-> hd.seq, data |-> e]]
           /\ ringLog' = [ringLog EXCEPT
                  !.pushed = Append(@, e.Timestamp),
                  !.overflowed = @ \/ Pending + 1 > RingCap]
           /\ handlers' = [handlers EXCEPT ![h] =
                  IF more THEN [hd EXCEPT !.j = @ + 1, !.pc = "set"]
                  ELSE [IdleHandler EXCEPT
                           !.ret = BatchedSendReturn(ringLog.overflowed
                                                     \/ Pending + 1 > RingCap)]]
    /\ UNCHANGED <<moreVars, storeVars, last, table, installed, batcher, dropped,
                   emitted, peerReads, journal>>

\* OneToOne.TryNext: swaps the slot at readIndex for nil; an empty slot or a
\* bucket older than readIndex yields nothing; a newer bucket moves readIndex
\* forward and reports the difference to the alerter
TryNext(r) ==
    LET idx == r.readIndex % RingCap
        result == r.buffer[idx]
        cleared == [r EXCEPT !.buffer[idx] = NilBucket]
    IN  IF result = NilBucket THEN [ok |-> FALSE, data |-> NilBucket.data, ring |-> r, dropped |-> 0]
        ELSE IF result.seq < r.readIndex
        THEN [ok |-> FALSE, data |-> NilBucket.data, ring |-> cleared, dropped |-> 0]
        ELSE [ok |-> TRUE, data |-> result.data,
              ring |-> [cleared EXCEPT !.readIndex = result.seq + 1],
              dropped |-> result.seq - r.readIndex]

write_forward(batch, ok) == [LocalOnly |-> FALSE, Batch |-> batch, ok |-> ok]

\* BatchedIngressClient.write: one SendRequest to the peer; ok tells whether
\* the RPC delivered it or failed (the error is logged)
write(batch, ok) == [LocalOnly |-> TRUE, Batch |-> batch, ok |-> ok]

AfterWrite_retry(batch, ok) == IF ok THEN <<>> ELSE batch

\* The batch after write returned: emptied, whether or not the RPC failed
AfterWrite(batch, ok) == <<>>

\* One turn of BatchedIngressClient.start: TryNext, then batcher.Write of the
\* envelope (a flush when the batch is full or the interval has passed) or,
\* with nothing to read, batcher.Flush (a flush when the interval has passed);
\* elapsed tells whether the interval has passed since the last flush
FlusherTurn(elapsed) ==
    LET t == TryNext(ring)
        batch == IF t.ok THEN Append(batcher, t.data) ELSE batcher
    IN  /\ ring' = t.ring
        /\ dropped' = dropped + t.dropped
        /\ ringLog' = IF t.ok THEN [ringLog EXCEPT !.taken = Append(@, t.data.Timestamp)]
                      ELSE ringLog
        /\ IF batch # <<>> /\ (elapsed \/ Len(batch) >= BatchSize)
           THEN \E ok \in BOOLEAN :
                   /\ emitted' = Append(emitted, write(batch, ok))
                   /\ batcher' = AfterWrite(batch, ok)
           ELSE /\ batcher' = batch
                /\ UNCHANGED emitted
        /\ UNCHANGED <<storeVars, last, table, installed, handlers, peerReads,
                       journal, peer, mu, callers, closing, auxVars>>

\* A turn of the flusher at any time: the interval has passed or has not
FlusherStep ==
    /\ \E elapsed \in BOOLEAN : FlusherTurn(elapsed)
    /\ ring' # ring \/ batcher' # batcher
    /\ UNCHANGED clock

\* The interval in sleeps of the idle flusher: 250 ms of 50 ms
IntervalSleeps == 5

Due_never(c) == FALSE

\* Batcher.Flush's test, time.Since(lastFlush) >= interval
Due(c) == c.age >= IntervalSleeps

\* A turn of the flusher with its clock: clock.age counts the sleeps' worth
\* of time since the last flush (up to the interval), clock.held the turns
\* the pending batch has been kept. An idle turn sleeps at least once; any
\* turn may take longer.
TimedFlusherStep ==
    LET t == TryNext(ring)
        forced == Due(clock) \/ (t.ok /\ Len(batcher) + 1 >= BatchSize)
        base == IF forced THEN 0 ELSE clock.age
        least == IF t.ok THEN 0 ELSE 1
    IN  /\ FlusherTurn(Due(clock))
        /\ \E pass \in least .. IntervalSleeps :
              clock' = [age |-> IF base + pass > IntervalSleeps THEN IntervalSleeps
                                ELSE base + pass,
                        held |-> IF batcher' = <<>> THEN 0 ELSE clock.held + 1]

\* The envelopes the peer has received, in order of arrival
RECURSIVE Flatten(_)
Flatten(reqs) ==
    IF reqs = <<>> THEN <<>>
    ELSE (IF Head(reqs).ok THEN Head(reqs).Batch ELSE <<>>) \o Flatten(Tail(reqs))

PeerEnvelopes == Flatten(emitted)

\* ------------------------------------------------------------------------
\* The egress proxy
\* ------------------------------------------------------------------------
\* What the peer answers to a Read: its own two envelopes of the source
PeerReadEnvelopes(q) ==
    <<[Timestamp |-> 99, kind |-> "Log", SourceId |-> q.index],
      [Timestamp |-> 101, kind |-> "Log", SourceId |-> q.index]>>

EgressLocal_always(node) == TRUE

\* EgressReverseProxy.Read's choice of client
EgressLocal(node) == node = localIdx

ReadValid_any(q) == TRUE

\* The request validation of a Read: the filter is absent or names a known
\* envelope type, and the limit is not negative
ReadValid(q) == q.envelopeType \in {Nil} \cup EnvelopeTypes /\ q.limit >= 0

\* Store.checkEnvelopeType's default branch: Get panics at the first envelope
\* of the range when the filter is of no known type
GetPanics(ix, q) ==
    /\ q.envelopeType \notin {Nil} \cup EnvelopeTypes
    /\ q.index \in DOMAIN ix
    /\ \E t \in DOMAIN ix[q.index] : q.start <= t /\ t < q.end

\* Egress.Read: rejected when malformed, else answered by the local store
\* (LocalStoreReader over Store.Get) or by one Read to the owning peer
EgressRead(q, bias, ok) ==
    /\ ~panicked
    /\ LET node == Lookup(table, q.index)
       IN  IF ~ReadValid(q)
           THEN /\ last' = [op |-> "Read", q |-> q, node |-> node, res |-> <<>>,
                            err |-> "InvalidArgument",
                            peerReadsBefore |-> Len(peerReads)]
                /\ UNCHANGED <<storeVars, peerReads>>
           ELSE IF EgressLocal(node) /\ GetPanics(indexes, q)
           THEN /\ ok
                /\ panicked' = TRUE
                /\ last' = [op |-> "Read", q |-> q, node |-> node, res |-> <<>>,
                            err |-> "panic",
                            peerReadsBefore |-> Len(peerReads)]
                /\ UNCHANGED <<size, maxPerSource, indexes, oldestValueTree, count,
                               metrics, expired, peerReads>>
           ELSE IF EgressLocal(node)
           THEN /\ ok
                /\ metrics' = [metrics EXCEPT !.Egress = @ + Len(GetResult(q, bias))]
                /\ UNCHANGED <<size, maxPerSource, indexes, oldestValueTree, count,
                               expired, panicked>>
                /\ last' = [op |-> "Read", q |-> q, node |-> node,
                            res |-> GetResult(q, bias), err |-> Nil,
                            peerReadsBefore |-> Len(peerReads)]
                /\ UNCHANGED peerReads
           ELSE /\ peerReads' = Append(peerReads, q)
                /\ last' = [op |-> "Read", q |-> q, node |-> node,
                            res |-> IF ok THEN PeerReadEnvelopes(q) ELSE <<>>,
                            err |-> IF ok THEN Nil ELSE "Unavailable",
                            peerReadsBefore |-> Len(peerReads)]
                /\ UNCHANGED <<storeVars>>
    /\ UNCHANGED <<moreVars, table, installed, handlers, ring, batcher, dropped, emitted,
                   journal, ringLog>>

\* What a peer may answer to a Meta: any subset of the sources, each with one
\* of two MetaInfo values
PeerMetaInfos ==
    {[Count |-> 1, Expired |-> 2, OldestTimestamp |-> 3, NewestTimestamp |-> 4],
     [Count |-> 2, Expired |-> 0, OldestTimestamp |-> 0, NewestTimestamp |-> 1]}

PeerMetas == UNION {[S -> PeerMetaInfos] : S \in SUBSET Sources}

\* The responses merged into one map, a later response replacing the entry
\* an earlier one gave for the same source
RECURSIVE MergeMeta(_)
MergeMeta(answers) ==
    IF answers = <<>> THEN [s \in {} |-> 0]
    ELSE LET a == MergeMeta(SubSeq(answers, 1, Len(answers) - 1))
             b == answers[Len(answers)]
         IN  [s \in (DOMAIN a) \cup (DOMAIN b) |->
                 IF s \in DOMAIN b THEN b[s] ELSE a[s]]

MetaErr_fail(peerOk) == IF peerOk THEN Nil ELSE "Unavailable"

\* The error of a fan-out Meta: a failed peer is logged, never returned
MetaErr(peerOk) == Nil

\* Egress.Meta (local_only = false): every node is asked, this one through
\* the LocalStoreReader; the answers arrive in either order and a failed
\* peer contributes nothing
EgressMeta(peerMeta, peerOk, localFirst) ==
    /\ ~panicked
    /\ LET local == Meta(Store)
           answers == IF ~peerOk THEN <<local>>
                      ELSE IF localFirst THEN <<local, peerMeta>>
                      ELSE <<peerMeta, local>>
       IN  last' = [op |-> "EgressMeta", peerMeta |-> peerMeta, peerOk |-> peerOk,
                    res |-> IF MetaErr(peerOk) = Nil THEN MergeMeta(answers)
                            ELSE [s \in {} |-> 0],
                    err |-> MetaErr(peerOk)]
    /\ UNCHANGED <<storeVars, nodeVars>>

\* ------------------------------------------------------------------------
\* The store under its lock (Store.mu): Put, Get and Meta step by step
\* ------------------------------------------------------------------------
\* The workers that call into the store
Workers == {1, 2}

IdleCaller == [pc |-> "idle"]

\* sync.RWMutex: Lock waits for the writer and for every reader
CanLock(m) == m.writer = 0 /\ m.readers = {}

CanRLock_always(m) == TRUE

\* sync.RWMutex: RLock waits for the writer
CanRLock(m) == m.writer = 0

\* Put counts the envelope (incIngress) before it asks for the lock
PutStart(w, e, index) ==
    /\ ~panicked
    /\ callers[w].pc = "idle"
    /\ callers' = [callers EXCEPT ![w] = [pc |-> "counted", e |-> e, index |-> index]]
    /\ metrics' = [metrics EXCEPT !.Ingress = @ + 1]
    /\ UNCHANGED <<size, maxPerSource, indexes, oldestValueTree, count, expired,
                   panicked, last, hist, routingVars, peer, mu, clock, closing, auxVars>>

\* Put takes the write side
PutLock(w) ==
    /\ callers[w].pc = "counted"
    /\ CanLock(mu)
    /\ mu' = [mu EXCEPT !.writer = w]
    /\ callers' = [callers EXCEPT ![w].pc = "locked"]
    /\ UNCHANGED <<storeVars, last, hist, routingVars, peer, clock, closing, auxVars>>

\* Put under the lock, up to the call of truncate
PutInsertStep(w) ==
    /\ callers[w].pc = "locked"
    /\ LET st == PutInsert(Store, callers[w].e, callers[w].index)
       IN  /\ indexes' = st.indexes
           /\ oldestValueTree' = st.oldestValueTree
           /\ count' = st.count
           /\ metrics' = [metrics EXCEPT !.Expired = st.Expired]
           /\ expired' = st.expired
    /\ callers' = [callers EXCEPT ![w].pc = "inserted"]
    /\ UNCHANGED <<size, maxPerSource, panicked, last, hist, routingVars, peer,
                   mu, clock, closing, auxVars>>

\* Put's truncate, the CachePeriod gauge and the deferred Unlock
PutTruncateStep(w) ==
    /\ callers[w].pc = "inserted"
    /\ LET st == truncate(Store)
       IN  /\ indexes' = st.indexes
           /\ oldestValueTree' = st.oldestValueTree
           /\ count' = st.count
           /\ metrics' = [metrics EXCEPT !.Expired = st.Expired]
           /\ expired' = st.expired
           /\ panicked' = (st.panicked \/ tsLeftPanics(st.oldestValueTree))
    /\ mu' = [mu EXCEPT !.writer = 0]
    /\ hist' = Append(hist, <<callers[w].e.Timestamp, callers[w].index>>)
    /\ callers' = [callers EXCEPT ![w] = IdleCaller]
    /\ UNCHANGED <<size, maxPerSource, last, routingVars, peer, clock, closing, auxVars>>

\* Get and Meta take the read side
ReadRLock(w, op, q) ==
    /\ ~panicked
    /\ callers[w].pc = "idle"
    /\ CanRLock(mu)
    /\ mu' = [mu EXCEPT !.readers = @ \cup {w}]
    /\ callers' = [callers EXCEPT ![w] = [pc |-> "rlocked", op |-> op, q |-> q]]
    /\ UNCHANGED <<storeVars, last, hist, routingVars, peer, clock, closing, auxVars>>

\* Get or Meta reads the store and releases the read side (deferred RUnlock)
ReadStep(w, bias) ==
    /\ callers[w].pc = "rlocked"
    /\ LET c == callers[w]
       IN  IF c.op = "Get"
           THEN /\ last' = [op |-> "Get", q |-> c.q, res |-> GetResult(c.q, bias),
                            observed |-> Store, puts |-> hist]
                /\ metrics' = [metrics EXCEPT !.Egress = @ + Len(GetResult(c.q, bias))]
           ELSE /\ last' = [op |-> "Meta", meta |-> Meta(Store),
                            observed |-> Store, puts |-> hist]
                /\ UNCHANGED metrics
    /\ mu' = [mu EXCEPT !.readers = @ \ {w}]
    /\ callers' = [callers EXCEPT ![w] = IdleCaller]
    /\ UNCHANGED <<size, maxPerSource, indexes, oldestValueTree, count, expired,
                   panicked, hist, routingVars, peer, clock, closing, auxVars>>

\* ------------------------------------------------------------------------
\* LogCache.Close
\* ------------------------------------------------------------------------
\* Close marks the node as closing and calls GracefulStop: the server takes
\* no new request
CloseStart ==
    /\ closing = "running"
    /\ closing' = "stopping"
    /\ UNCHANGED <<storeVars, last, routingVars, peer, mu, callers, clock, auxVars>>

\* GracefulStop returns once every request in progress has been answered,
\* and Close returns nil
CloseReturn ==
    /\ closing = "stopping"
    /\ \A h \in Handlers : handlers[h].pc = "idle"
    /\ closing' = "closed"
    /\ UNCHANGED <<storeVars, last, routingVars, peer, mu, callers, clock, auxVars>>

\* ------------------------------------------------------------------------
\* Node assembly: the clients setupRouting registers
\* ------------------------------------------------------------------------
\* Before Start: no address list, nothing registered
NoSetup ==
    [pc |-> "new", n |-> 0, nodeIndex |-> 0, dial |-> <<>>, i |-> 0,
     ingressClients |-> <<>>, egressClients |-> <<>>, localIdx |-> 0]

\* Start calls setupRouting: n node addresses, this node at nodeIndex;
\* dial[i + 1] tells whether grpc.Dial of address i succeeds
SetupStart(n, nodeIndex, dial) ==
    /\ setup.pc = "new"
    /\ setup' = [NoSetup EXCEPT !.pc = "loop", !.n = n, !.nodeIndex = nodeIndex,
                                !.dial = dial]
    /\ UNCHANGED <<storeVars, last, hist, routingVars, peer, mu, callers, clock,
                   closing, mgr, capi>>

\* One turn of the loop over c.nodeAddrs
RegisterStep ==
    /\ setup.pc = "loop"
    /\ setup.i < setup.n
    /\ LET i == setup.i
           next == [setup EXCEPT !.i = i + 1]
       IN  setup' =
              IF i # setup.nodeIndex
              THEN IF ~setup.dial[i + 1] THEN next
                   ELSE [next EXCEPT
                            !.ingressClients = Append(@, [kind |-> "batched", addr |-> i]),
                            !.egressClients = Append(@, [kind |-> "remote", addr |-> i])]
              ELSE [next EXCEPT
                       !.localIdx = i,
                       !.ingressClients = Append(@, [kind |-> "local", addr |-> i]),
                       !.egressClients = Append(@, [kind |-> "local", addr |-> i])]
    /\ UNCHANGED <<storeVars, last, hist, routingVars, peer, mu, callers, clock,
                   closing, mgr, capi>>

\* The loop is over: the two proxies are built over the lists and localIdx
NewProxies ==
    /\ setup.pc = "loop"
    /\ setup.i = setup.n
    /\ setup' = [setup EXCEPT !.pc = "serving"]
    /\ UNCHANGED <<storeVars, last, hist, routingVars, peer, mu, callers, clock,
                   closing, mgr, capi>>

\* ------------------------------------------------------------------------
\* groups.Manager over a DataStorage
\* ------------------------------------------------------------------------
Groups == {"g"}

Requesters == {1, 2}

\* Before NewManager: no groups; the DataStorage holds no producer (prod) and
\* no requester (reg)
NoManager ==
    [pc |-> "new", requesterTimeout |-> 0, m |-> [g \in {} |-> 0],
     prod |-> {}, reg |-> {}]

\* NewManager(s, requesterTimeout)
NewManager(requesterTimeout) ==
    /\ mgr.pc = "new"
    /\ mgr' = [NoManager EXCEPT !.pc = "ready", !.requesterTimeout = requesterTimeout]
    /\ UNCHANGED <<storeVars, last, hist, routingVars, peer, mu, callers, clock,
                   closing, setup, capi>>

\* m.m with the entry of name set to gi
SetGroup(m, name, gi) ==
    [g \in (DOMAIN m) \cup {name} |-> IF g = name THEN gi ELSE m[g]]

\* Manager.AddToGroup (name and source id non-empty and short)
AddToGroup(name, sourceId) ==
    /\ mgr.pc = "ready"
    /\ LET gi == IF name \in DOMAIN mgr.m THEN mgr.m[name]
                 ELSE [sourceIDs |-> <<>>, requesterIDs |-> [r \in {} |-> 0]]
       IN  mgr' = [mgr EXCEPT
                      !.m = SetGroup(@, name,
                                     [gi EXCEPT !.sourceIDs = Append(@, sourceId)]),
                      !.prod = @ \cup {<<name, sourceId>>}]
    /\ last' = [op |-> "AddToGroup", name |-> name, sourceId |-> sourceId]
    /\ UNCHANGED <<storeVars, hist, routingVars, peer, mu, callers, clock,
                   closing, setup, capi>>

\* The loop of RemoveFromGroup: the first entry equal to x is cut out
RemoveFirstEqual(sq, x) ==
    IF \E i \in 1 .. Len(sq) : sq[i] = x
    THEN LET i == CHOOSE i \in 1 .. Len(sq) :
                     sq[i] = x /\ \A j \in 1 .. i - 1 : sq[j] # x
         IN  SubSeq(sq, 1, i - 1) \o SubSeq(sq, i + 1, Len(sq))
    ELSE sq

\* Manager.RemoveFromGroup
RemoveFromGroup(name, sourceId) ==
    /\ mgr.pc = "ready"
    /\ IF name \notin DOMAIN mgr.m THEN UNCHANGED mgr
       ELSE LET a == [mgr.m[name] EXCEPT !.sourceIDs = RemoveFirstEqual(@, sourceId)]
                found == \E i \in 1 .. Len(mgr.m[name].sourceIDs) :
                            mgr.m[name].sourceIDs[i] = sourceId
            IN  mgr' = [mgr EXCEPT
                           !.m = IF a.sourceIDs = <<>>
                                 THEN [g \in (DOMAIN @) \ {name} |-> @[g]]
                                 ELSE SetGroup(@, name, a),
                           !.prod = IF found THEN @ \ {<<name, sourceId>>} ELSE @]
    /\ last' = [op |-> "RemoveFromGroup", name |-> name, sourceId |-> sourceId,
                before |-> mgr]
    /\ UNCHANGED <<storeVars, hist, routingVars, peer, mu, callers, clock,
                   closing, setup, capi>>

\* Manager.Read: requesterIDs holds, per requester, the time since its last
\* Read; wait is the time that passes between time.Now() and the expiry test
GroupRead(name, requesterId, wait) ==
    /\ mgr.pc = "ready"
    /\ IF name \notin DOMAIN mgr.m
       THEN /\ UNCHANGED mgr
            /\ last' = [op |-> "GroupRead", name |-> name, requesterId |-> requesterId,
                        err |-> "NotFound", addRequester |-> FALSE, get |-> FALSE,
                        inManager |-> FALSE, inStorage |-> FALSE]
       ELSE LET ids == mgr.m[name].requesterIDs
                fresh == requesterId \notin DOMAIN ids
                reg1 == IF fresh THEN mgr.reg \cup {<<name, requesterId>>} ELSE mgr.reg
                seen == [r \in (DOMAIN ids) \cup {requesterId} |->
                            IF r = requesterId THEN wait ELSE ids[r] + wait]
                gone == {r \in DOMAIN seen : seen[r] >= mgr.requesterTimeout}
                kept == [r \in (DOMAIN seen) \ gone |-> seen[r]]
                reg2 == reg1 \ {<<name, r>> : r \in gone}
            IN  /\ mgr' = [mgr EXCEPT !.m[name].requesterIDs = kept, !.reg = reg2]
                /\ last' = [op |-> "GroupRead", name |-> name,
                            requesterId |-> requesterId, err |-> Nil,
                            addRequester |-> fresh, get |-> TRUE,
                            inManager |-> requesterId \in DOMAIN kept,
                            inStorage |-> <<name, requesterId>> \in reg2]
    /\ UNCHANGED <<storeVars, hist, routingVars, peer, mu, callers, clock,
                   closing, setup, capi>>

\* Time passes between two calls
GroupTick ==
    /\ mgr.pc = "ready"
    /\ \E g \in DOMAIN mgr.m : \E r \in DOMAIN mgr.m[g].requesterIDs :
          mgr.m[g].requesterIDs[r] < MaxTimeout
    /\ mgr' = [mgr EXCEPT !.m =
                  [g \in DOMAIN @ |->
                      [@[g] EXCEPT !.requesterIDs =
                          [r \in DOMAIN @ |-> IF @[r] < MaxTimeout THEN @[r] + 1 ELSE @[r]]]]]
    /\ UNCHANGED <<storeVars, last, hist, routingVars, peer, mu, callers, clock,
                   closing, setup, capi>>

\* ------------------------------------------------------------------------
\* auth.CAPIClient: IsAuthorized and its token cache
\* ------------------------------------------------------------------------
\* Strings as sequences of characters: the tokens "a" and "ab"
ClientTokens == {<<"a">>, <<"a", "b">>}

\* The source ids "c" and "bc"
SourceIds == {<<"c">>, <<"b", "c">>}

\* The key under which IsAuthorized caches an approval: clientToken + sourceId
CacheKey(clientToken, sourceId) == clientToken \o sourceId

\* NewCAPIClient: an empty tokenCache. An entry holds whether
\* cacheExpirationInterval has passed since it was stored (due) and, for the
\* record, the pair CAPI approved when it was stored (pair)
NewCAPIClient == [tokenCache |-> [k \in {} |-> 0]]

\* CAPIClient.IsAuthorized; hasApp and hasService are what CAPI answers for
\* this token and this source id
IsAuthorized(sourceId, clientToken, hasApp, hasService) ==
    LET key == CacheKey(clientToken, sourceId)
        cache == capi.tokenCache
        hit == key \in DOMAIN cache
    IN  /\ IF ~hit /\ (hasApp \/ hasService)
           THEN capi' = [capi EXCEPT !.tokenCache =
                            [k \in (DOMAIN cache) \cup {key} |->
                                IF k = key
                                THEN [due |-> FALSE, pair |-> <<clientToken, sourceId>>]
                                ELSE cache[k]]]
           ELSE UNCHANGED capi
        /\ last' = [op |-> "IsAuthorized", sourceId |-> sourceId,
                    clientToken |-> clientToken,
                    res |-> hit \/ hasApp \/ hasService,
                    confirmed |-> ~hit /\ (hasApp \/ hasService),
                    cached |-> IF hit THEN {cache[key].pair} ELSE {}]
        /\ UNCHANGED <<storeVars, hist, routingVars, peer, mu, callers, clock,
                       closing, setup, mgr>>

\* cacheExpirationInterval passes
CapiTick ==
    /\ \E k \in DOMAIN capi.tokenCache : ~capi.tokenCache[k].due
    /\ capi' = [capi EXCEPT !.tokenCache =
                    [k \in DOMAIN @ |-> [@[k] EXCEPT !.due = TRUE]]]
    /\ UNCHANGED <<storeVars, last, hist, routingVars, peer, mu, callers, clock,
                   closing, setup, mgr>>

\* One round of CAPIClient.pruneTokens
pruneTokens ==
    /\ \E k \in DOMAIN capi.tokenCache : capi.tokenCache[k].due
    /\ capi' = [capi EXCEPT !.tokenCache =
                    [k \in {x \in DOMAIN @ : ~@[x].due} |-> @[k]]]
    /\ UNCHANGED <<storeVars, last, hist, routingVars, peer, mu, callers, clock,
                   closing, setup, mgr>>

\* ------------------------------------------------------------------------
\* The cluster: the peer as a second node with a store of its own
\* ------------------------------------------------------------------------
peerIdx == 1

\* Store.Put on a store value
PutValue(st, e) == truncate(PutInsert(st, e, e.SourceId))

\* The peer's ingress proxy over the envelopes of one request: those the
\* table gives to the peer go into its store, the others of a local_only
\* request are dropped
RECURSIVE PeerPutAll(_, _)
PeerPutAll(st, batch) ==
    IF batch = <<>> THEN st
    ELSE LET e == Head(batch)
             next == IF Lookup(table, e.SourceId) = peerIdx THEN PutValue(st, e)
                     ELSE st
         IN  PeerPutAll(next, Tail(batch))

\* Ingress.Send at the peer, local_only = false, for sources the table gives
\* to the peer
PeerSend(srcs) ==
    /\ \A k \in 1 .. Len(srcs) : Lookup(table, srcs[k]) = peerIdx
    /\ LET n == Len(journal)
           req == IF n = 0 THEN 1 ELSE journal[n].req + 1
           batch == [k \in 1 .. Len(srcs) |->
                        [Timestamp |-> n + k, kind |-> "Log", SourceId |-> srcs[k]]]
       IN  /\ peer' = [peer EXCEPT !.store = PeerPutAll(@, batch)]
           /\ journal' = journal \o
                  [k \in 1 .. Len(srcs) |->
                      [SourceId |-> srcs[k], localOnly |-> FALSE, req |-> req,
                       epoch |-> Len(installed), node |-> peerIdx,
                       atEpoch |-> Len(installed), outcome |-> "peer"]]
    /\ UNCHANGED <<storeVars, last, table, installed, handlers, ring, batcher,
                   dropped, emitted, peerReads, ringLog, mu, callers, clock,
                   closing, auxVars>>

\* The peer's Ingress.Send handler for the next SendRequest this node's
\* BatchedIngressClient has written; a failed RPC brings it nothing
PeerHandle ==
    /\ peer.handled < Len(emitted)
    /\ LET r == emitted[peer.handled + 1]
       IN  peer' = [peer EXCEPT
                       !.handled = @ + 1,
                       !.store = IF r.ok THEN PeerPutAll(@, r.Batch) ELSE @]
    /\ UNCHANGED <<storeVars, last, nodeVarsButPeer>>

\* Nothing is on its way: every worker is idle, the diode and the batcher
\* are empty and the peer has handled every request written to it
Settled ==
    /\ \A h \in Handlers : handlers[h].pc = "idle"
    /\ ~TryNext(ring).ok
    /\ TryNext(ring).ring = ring
    /\ batcher = <<>>
    /\ peer.handled = Len(emitted)

\* No envelope was given up by design: the diode never overflowed and every
\* RPC to the peer succeeded
Lossless ==
    /\ dropped = 0
    /\ ~ringLog.overflowed
    /\ \A i \in 1 .. Len(emitted) : emitted[i].ok

\* Egress.Read at node via: answered from the owner's store, by a Read RPC
\* to the owner when the owner is the other node
ClusterRead(via, q, bias, ok) ==
    /\ ~panicked
    /\ LET node == Lookup(table, q.index)
           remote == node # via
           ix == IF node = localIdx THEN indexes ELSE peer.store.indexes
           failed == remote /\ ~ok
           res == IF failed THEN <<>> ELSE GetFrom(ix, q, bias)
       IN  /\ remote \/ ok
           /\ metrics' = IF node = localIdx /\ ~failed
                         THEN [metrics EXCEPT !.Egress = @ + Len(res)]
                         ELSE metrics
           /\ peerReads' = IF via = localIdx /\ remote THEN Append(peerReads, q)
                           ELSE peerReads
           /\ last' = [op |-> "ClusterRead", via |-> via, q |-> q, node |-> node,
                       res |-> res, err |-> IF failed THEN "Unavailable" ELSE Nil,
                       sent |-> {x \in 1 .. Len(journal) :
                                    journal[x].SourceId = q.index},
                       settled |-> Settled, lossless |-> Lossless]
    /\ UNCHANGED <<size, maxPerSource, indexes, oldestValueTree, count, expired,
                   panicked, table, installed, handlers, ring, batcher, dropped,
                   emitted, journal, ringLog, moreVars>>

\* ------------------------------------------------------------------------
\* Specifications
\* ------------------------------------------------------------------------
Envelope(ts, kind) == [Timestamp |-> ts, kind |-> kind]

\* The peer's store empty, the store's lock free, no call in progress, the
\* batcher just created, the server running
InitMore ==
    /\ peer = [store |-> EmptyStore, handled |-> 0]
    /\ mu = [writer |-> 0, readers |-> {}]
    /\ callers = [w \in Workers |-> IdleCaller]
    /\ clock = [age |-> 0, held |-> 0]
    /\ closing = "running"
    /\ setup = NoSetup
    /\ mgr = NoManager
    /\ capi = NewCAPIClient

\* The node around a fresh store: default routing, nothing in flight
InitNode ==
    /\ table = DefaultTable
    /\ installed = <<>>
    /\ handlers = [h \in Handlers |-> IdleHandler]
    /\ ring = EmptyRing
    /\ batcher = <<>>
    /\ dropped = 0
    /\ emitted = <<>>
    /\ peerReads = <<>>
    /\ journal = <<>>
    /\ ringLog = [pushed |-> <<>>, taken |-> <<>>, overflowed |-> FALSE]
    /\ InitMore


Init ==
    /\ size \in 0 .. MaxSize
    /\ maxPerSource \in 0 .. MaxCap
    /\ indexes = [i \in {} |-> EmptyTree]
    /\ oldestValueTree = EmptyTree
    /\ count = 0
    /\ metrics = [Expired |-> 0, Ingress |-> 0, Egress |-> 0]
    /\ expired = [s \in Sources |-> 0]
    /\ panicked = FALSE
    /\ last = [op |-> "NewStore"]
    /\ hist = <<>>
    /\ InitNode

DoPut ==
    /\ metrics.Ingress < MaxPuts
    /\ \E index \in Sources, ts \in Timestamps, kind \in {"Log"} :
        /\ Put(Envelope(ts, kind), index)
        /\ UNCHANGED <<hist, nodeVars>>

DoPrune ==
    \E quota \in 0 .. MaxQuota :
        /\ PruneCycle(quota)
        /\ UNCHANGED <<hist, nodeVars>>

DoMeta == MetaCall /\ UNCHANGED <<hist, nodeVars>>

Next == DoPut \/ DoPrune \/ DoMeta

Spec == Init /\ [][Next]_vars

\* The store driven by Puts only, each Put recorded in hist
DoPutHist ==
    /\ Len(hist) < MaxPuts
    /\ \E index \in Sources, ts \in 1 .. HistMaxTs :
        /\ Put(Envelope(ts, "Log"), index)
        /\ hist' = Append(hist, <<ts, index>>)
        /\ UNCHANGED nodeVars

NextHist == DoPutHist

SpecHist == Init /\ [][NextHist]_vars

\* The store read by Get
Queries ==
    [index : Sources, start : 0 .. GetMaxTs + 1, end : 0 .. GetMaxTs + 1,
     envelopeType : {Nil} \cup EnvelopeTypes, limit : 0 .. MaxLimit,
     descending : BOOLEAN]

InitGet ==
    /\ size = GetCap
    /\ maxPerSource = GetCap
    /\ indexes = [i \in {} |-> EmptyTree]
    /\ oldestValueTree = EmptyTree
    /\ count = 0
    /\ metrics = [Expired |-> 0, Ingress |-> 0, Egress |-> 0]
    /\ expired = [s \in Sources |-> 0]
    /\ panicked = FALSE
    /\ last = [op |-> "NewStore"]
    /\ hist = <<>>
    /\ InitNode

DoPutGet ==
    /\ metrics.Ingress < GetMaxPuts
    /\ last.op # "Get"
    /\ \E index \in Sources, ts \in 0 .. GetMaxTs, kind \in {"Log", "Counter"} :
        /\ Put(Envelope(ts, kind), index)
        /\ UNCHANGED <<hist, nodeVars>>

DoGet ==
    /\ last.op # "Get"
    /\ \E q \in Queries, bias \in {0, 1} :
        /\ Get(q, bias)
        /\ UNCHANGED <<hist, nodeVars>>

NextGet == DoPutGet \/ DoGet

SpecGet == InitGet /\ [][NextGet]_vars

\* The node: Ingress.Send requests routed to the local store or forwarded
\* to the peer, SetRanges calls and the flusher, in any interleaving
ClusterCap == MaxEnvs + RaceReqs * RaceBatch

RECURSIVE SeqsUpTo(_, _)
SeqsUpTo(S, n) ==
    IF n = 0 THEN {<<>>}
    ELSE LET shorter == SeqsUpTo(S, n - 1)
         IN  shorter \cup {Append(sq, x) : sq \in {y \in shorter : Len(y) = n - 1}, x \in S}

\* The mapping the scheduler installs first: the ring split at the midpoint
\* between this node and the peer
Split ==
    {[Node |-> 0, Start |-> 0, End |-> Mid],
     [Node |-> 1, Start |-> Mid + 1, End |-> HashMax]}

InitNodeStore ==
    /\ size = ClusterCap
    /\ maxPerSource = ClusterCap
    /\ indexes = [i \in {} |-> EmptyTree]
    /\ oldestValueTree = EmptyTree
    /\ count = 0
    /\ metrics = [Expired |-> 0, Ingress |-> 0, Egress |-> 0]
    /\ expired = [s \in Sources |-> 0]
    /\ panicked = FALSE
    /\ last = [op |-> "NewStore"]
    /\ hist = <<>>
    /\ InitNode

Requests == IF journal = <<>> THEN 0 ELSE journal[Len(journal)].req

\* One request at a time
DoIngressSend ==
    /\ Len(journal) < MaxEnvs
    /\ handlers[1].pc = "idle"
    /\ \E srcs \in SeqsUpTo(Sources, MaxEnvs - Len(journal)) \ {<<>>},
          localOnly \in BOOLEAN :
          IngressSend(1, srcs, localOnly)
    /\ UNCHANGED hist

DoRouteStep == \E h \in Handlers : RouteStep(h) /\ UNCHANGED hist

DoSetRead == \E h \in Handlers : SetRead(h) /\ UNCHANGED hist

DoSetStore == \E h \in Handlers : SetStore(h) /\ UNCHANGED hist

DoFlusherStep == FlusherStep /\ UNCHANGED hist

\* The scheduler's calls: the mappings that partition the ring, and two that
\* do not (a gap, an overlap)
NodeMappings ==
    {m \in Mappings : Valid(m)}
        \cup {{[Node |-> 0, Start |-> 0, End |-> Mid]},
              {[Node |-> 0, Start |-> 0, End |-> HashMax],
               [Node |-> 1, Start |-> Mid + 1, End |-> HashMax]}}

DoSetRanges ==
    /\ Len(installed) < 1 + MaxSetRanges
    /\ \E m \in NodeMappings : SetRanges(m)
    /\ UNCHANGED hist

NextNode ==
    DoIngressSend \/ DoRouteStep \/ DoSetRead \/ DoSetStore \/ DoFlusherStep
        \/ DoSetRanges

\* The node once the scheduler has installed Split
InitNodeSplit ==
    /\ size = ClusterCap
    /\ maxPerSource = ClusterCap
    /\ indexes = [i \in {} |-> EmptyTree]
    /\ oldestValueTree = EmptyTree
    /\ count = 0
    /\ metrics = [Expired |-> 0, Ingress |-> 0, Egress |-> 0]
    /\ expired = [s \in Sources |-> 0]
    /\ panicked = FALSE
    /\ last = [op |-> "SetRanges", m |-> Split, err |-> Nil, before |-> DefaultTable]
    /\ hist = <<>>
    /\ table = NewTable(Split)
    /\ installed = <<Split>>
    /\ handlers = [h \in Handlers |-> IdleHandler]
    /\ ring = EmptyRing
    /\ batcher = <<>>
    /\ dropped = 0
    /\ emitted = <<>>
    /\ peerReads = <<>>
    /\ journal = <<>>
    /\ ringLog = [pushed |-> <<>>, taken |-> <<>>, overflowed |-> FALSE]
    /\ InitMore

SpecNode == InitNodeSplit /\ [][NextNode]_vars

\* The node under two clients sending at the same time, each request on its
\* own gRPC worker, after the scheduler has split the ring at the midpoint
DoIngressSendRace ==
    /\ Requests < RaceReqs
    /\ installed # <<>>
    /\ \E h \in Handlers :
        /\ handlers[h].pc = "idle"
        /\ \A g \in Handlers : g < h => handlers[g].pc # "idle"
        /\ \E srcs \in SeqsUpTo(Sources, RaceBatch) \ {<<>>} :
              IngressSend(h, srcs, FALSE)
    /\ UNCHANGED hist

DoSetRangesSplit ==
    /\ installed = <<>>
    /\ SetRanges(Split)
    /\ UNCHANGED hist

NextRace ==
    DoSetRangesSplit \/ DoIngressSendRace \/ DoRouteStep \/ DoSetRead
        \/ DoSetStore \/ DoFlusherStep

SpecRace == InitNodeStore /\ [][NextRace]_vars

\* The orchestrator alone: the scheduler calls SetRanges with any mapping,
\* valid or not
DoSetRangesAny ==
    /\ \E m \in Mappings :
        /\ Valid(m) => Len(installed) < MaxSetRanges
        /\ SetRanges(m)
    /\ UNCHANGED hist

NextOrch == DoSetRangesAny

SpecOrch == InitGet /\ [][NextOrch]_vars

\* The node answering Egress.Read, with envelopes in its store and the
\* scheduler changing the mapping; a Read ends the run
EgressQueries ==
    {q \in Queries : q.limit >= 1 /\ ~q.descending /\ q.envelopeType \in {Nil, "Log"}}

InitEgress ==
    /\ size = GetCap
    /\ maxPerSource = GetCap
    /\ indexes = [i \in {} |-> EmptyTree]
    /\ oldestValueTree = EmptyTree
    /\ count = 0
    /\ metrics = [Expired |-> 0, Ingress |-> 0, Egress |-> 0]
    /\ expired = [s \in Sources |-> 0]
    /\ panicked = FALSE
    /\ last = [op |-> "SetRanges", m |-> Split, err |-> Nil, before |-> DefaultTable]
    /\ hist = <<>>
    /\ table = NewTable(Split)
    /\ installed = <<Split>>
    /\ handlers = [h \in Handlers |-> IdleHandler]
    /\ ring = EmptyRing
    /\ batcher = <<>>
    /\ dropped = 0
    /\ emitted = <<>>
    /\ peerReads = <<>>
    /\ journal = <<>>
    /\ ringLog = [pushed |-> <<>>, taken |-> <<>>, overflowed |-> FALSE]
    /\ InitMore

DoPutEgress ==
    /\ metrics.Ingress < EgressMaxPuts
    /\ last.op # "Read"
    /\ \E index \in Sources, ts \in 0 .. GetMaxTs :
        /\ Put(Envelope(ts, "Log"), index)
        /\ UNCHANGED <<hist, nodeVars>>

DoSetRangesEgress ==
    /\ last.op # "Read"
    /\ Len(installed) < 1 + MaxSetRanges
    /\ \E m \in NodeMappings : SetRanges(m)
    /\ UNCHANGED hist

DoEgressRead ==
    /\ last.op # "Read"
    /\ \E q \in EgressQueries, bias \in {0, 1}, ok \in BOOLEAN :
        EgressRead(q, bias, ok)
    /\ UNCHANGED hist

NextEgress == DoPutEgress \/ DoSetRangesEgress \/ DoEgressRead

SpecEgress == InitEgress /\ [][NextEgress]_vars

\* The node answering Reads that may be malformed: an unknown envelope type
\* in the filter, a negative limit
BadReadQueries ==
    [index : Sources, start : {0}, end : {GetMaxTs + 1},
     envelopeType : {Nil, "Log", "Unknown"}, limit : {-1, 0, 1},
     descending : {FALSE}]

NextBadRead ==
    \/ DoPutEgress
    \/ DoSetRangesEgress
    \/ /\ last.op # "Read"
       /\ \E q \in BadReadQueries, bias \in {0, 1}, ok \in BOOLEAN :
             EgressRead(q, bias, ok)
       /\ UNCHANGED hist

SpecBadRead == InitEgress /\ [][NextBadRead]_vars

\* The node answering Egress.Meta, with envelopes in its store and a peer
\* that answers or fails
DoPutMeta ==
    /\ metrics.Ingress < MetaMaxPuts
    /\ \E index \in Sources, ts \in 0 .. GetMaxTs :
        /\ Put(Envelope(ts, "Log"), index)
        /\ UNCHANGED <<hist, nodeVars>>

DoEgressMeta ==
    /\ \E peerMeta \in PeerMetas, peerOk \in BOOLEAN, localFirst \in BOOLEAN :
        EgressMeta(peerMeta, peerOk, localFirst)
    /\ UNCHANGED hist

NextMeta == DoPutMeta \/ DoEgressMeta

SpecMeta == InitEgress /\ [][NextMeta]_vars

\* Two nodes with the ring split at the midpoint: clients send to either
\* node at the same time, this node forwards to the peer, and a client reads
\* through either node; the Read ends the run
ClusterQueries ==
    {[index |-> s, start |-> 0, end |-> ClusterCap + 1, envelopeType |-> Nil,
      limit |-> ClusterCap, descending |-> FALSE] : s \in Sources}

DoClusterSend ==
    /\ last.op # "ClusterRead"
    /\ Requests < ClusterReqs + PeerSends
    /\ Cardinality({x \in 1 .. Len(journal) : journal[x].outcome # "peer"})
           < ClusterReqs * ClusterBatch
    /\ \E h \in Handlers :
        /\ handlers[h].pc = "idle"
        /\ \A g \in Handlers : g < h => handlers[g].pc # "idle"
        /\ \E srcs \in SeqsUpTo(Sources, ClusterBatch) \ {<<>>} :
              IngressSend(h, srcs, FALSE)
    /\ UNCHANGED hist

DoPeerSend ==
    /\ last.op # "ClusterRead"
    /\ Cardinality({x \in 1 .. Len(journal) : journal[x].outcome = "peer"})
           < PeerSends
    /\ \E src \in Sources : PeerSend(<<src>>)
    /\ UNCHANGED hist

DoClusterStep ==
    /\ last.op # "ClusterRead"
    /\ \/ \E h \in Handlers : RouteStep(h) \/ SetRead(h) \/ SetStore(h)
       \/ FlusherStep
    /\ UNCHANGED hist

DoPeerHandle == last.op # "ClusterRead" /\ PeerHandle /\ UNCHANGED hist

DoClusterRead ==
    /\ last.op # "ClusterRead"
    /\ \E via \in NodeIndexes, q \in ClusterQueries, bias \in {0, 1}, ok \in BOOLEAN :
        ClusterRead(via, q, bias, ok)
    /\ UNCHANGED hist

NextCluster ==
    DoClusterSend \/ DoPeerSend \/ DoClusterStep \/ DoPeerHandle \/ DoClusterRead

SpecCluster == InitNodeSplit /\ [][NextCluster]_vars

\* The node forwarding to its peer with the flusher's clock running: one
\* request at a time, each of one envelope
NextFlush ==
    \/ /\ Len(journal) < FlushEnvs
       /\ \E src \in Sources : IngressSend(1, <<src>>, FALSE)
       /\ UNCHANGED hist
    \/ RouteStep(1) /\ UNCHANGED hist
    \/ SetRead(1) /\ UNCHANGED hist
    \/ SetStore(1) /\ UNCHANGED hist
    \/ TimedFlusherStep /\ UNCHANGED hist

SpecFlush == InitNodeSplit /\ [][NextFlush]_vars

\* The node forwarding to its peer and being closed
NextClose ==
    \/ /\ Len(journal) < FlushEnvs
       /\ \E src \in Sources : IngressSend(1, <<src>>, FALSE)
       /\ UNCHANGED hist
    \/ RouteStep(1) /\ UNCHANGED hist
    \/ SetRead(1) /\ UNCHANGED hist
    \/ SetStore(1) /\ UNCHANGED hist
    \/ FlusherStep /\ UNCHANGED hist
    \/ CloseStart /\ UNCHANGED hist
    \/ CloseReturn /\ UNCHANGED hist

SpecClose == InitNodeSplit /\ [][NextClose]_vars

\* Start on any address list of up to MaxNodes nodes, any position of this
\* node in it and any outcome of the dials
NextSetup ==
    \/ \E n \in 1 .. MaxNodes :
          \E nodeIndex \in 0 .. n - 1, dial \in [1 .. n -> BOOLEAN] :
             SetupStart(n, nodeIndex, dial)
    \/ RegisterStep
    \/ NewProxies

SpecSetup == InitNodeSplit /\ [][NextSetup]_vars

\* A manager with any requester timeout, called with any sequence of
\* AddToGroup, RemoveFromGroup and Read while time passes
NextGroups ==
    \/ \E t \in 0 .. MaxTimeout : NewManager(t)
    \/ \E name \in Groups, sourceId \in Sources :
          /\ name \in DOMAIN mgr.m => Len(mgr.m[name].sourceIDs) < MaxMembers
          /\ AddToGroup(name, sourceId)
    \/ \E name \in Groups, sourceId \in Sources : RemoveFromGroup(name, sourceId)
    \/ \E name \in Groups, requesterId \in Requesters, wait \in {0, 1} :
          GroupRead(name, requesterId, wait)
    \/ GroupTick

SpecGroups == InitNodeSplit /\ [][NextGroups]_vars

\* A CAPI client asked about any token and source id, CAPI answering
\* either way, while the cache ages and is pruned
NextAuth ==
    \/ \E sourceId \in SourceIds, clientToken \in ClientTokens,
           hasApp \in BOOLEAN, hasService \in BOOLEAN :
          IsAuthorized(sourceId, clientToken, hasApp, hasService)
    \/ CapiTick
    \/ pruneTokens

SpecAuth == InitNodeSplit /\ [][NextAuth]_vars

\* The store called by two workers at once: Puts, and one Get or Meta that
\* ends the run
LockQueries ==
    {[index |-> s, start |-> 0, end |-> GetMaxTs + 1, envelopeType |-> Nil,
      limit |-> GetCap, descending |-> FALSE] : s \in Sources}

InitLock ==
    /\ size \in 1 .. MaxSize
    /\ maxPerSource \in 1 .. MaxCap
    /\ indexes = [i \in {} |-> EmptyTree]
    /\ oldestValueTree = EmptyTree
    /\ count = 0
    /\ metrics = [Expired |-> 0, Ingress |-> 0, Egress |-> 0]
    /\ expired = [s \in Sources |-> 0]
    /\ panicked = FALSE
    /\ last = [op |-> "NewStore"]
    /\ hist = <<>>
    /\ InitNode

ReadDone == last.op \in {"Get", "Meta"}

NextLock ==
    \E w \in Workers :
        \/ /\ ~ReadDone /\ metrics.Ingress < LockMaxPuts
           /\ \E index \in Sources, ts \in 0 .. GetMaxTs :
                 PutStart(w, Envelope(ts, "Log"), index)
        \/ ~ReadDone /\ PutLock(w)
        \/ ~ReadDone /\ PutInsertStep(w)
        \/ ~ReadDone /\ PutTruncateStep(w)
        \/ ~ReadDone /\ \E q \in LockQueries : ReadRLock(w, "Get", q)
        \/ ~ReadDone /\ ReadRLock(w, "Meta", Nil)
        \/ ~ReadDone /\ \E bias \in {0, 1} : ReadStep(w, bias)

SpecLock == InitLock /\ [][NextLock]_vars

\* ------------------------------------------------------------------------
\* Properties
\* ------------------------------------------------------------------------
RECURSIVE SumOver(_, _)
SumOver(f, S) ==
    IF S = {} THEN 0
    ELSE LET x == CHOOSE y \in S : TRUE IN f[x] + SumOver(f, S \ {x})

IndexSizes == [s \in DOMAIN indexes |-> Size(indexes[s])]

CountIsSum == count = SumOver(IndexSizes, DOMAIN indexes)

AtLeastOne(n) == IF n >= 1 THEN n ELSE 1

C6_TruncatesGlobalOldest ==
    last.op \in {"Put", "Prune"} =>
        \A w \in last.truncated :
            \A s \in DOMAIN indexes : \A k \in DOMAIN indexes[s] :
                w.e.Timestamp <= k

\* A Put for one source made truncate remove an older envelope of another
\* source, and both sources still hold envelopes.
C6_Witness ==
    /\ last.op = "Put"
    /\ \E w \in last.truncated :
        /\ w.index # last.index
        /\ w.e.Timestamp < last.e.Timestamp
        /\ w.index \in DOMAIN indexes
    /\ last.index \in DOMAIN indexes

\* C7 as stated: no Put panics, for every non-negative size and
\* max_per_source.
C7_PutNeverFails == ~panicked

C4_NoOverwrite ==
    (/\ Len(hist) >= 1
     /\ \A i \in 1 .. Len(hist) : hist[i] = hist[1]
     /\ Len(hist) <= maxPerSource
     /\ Len(hist) <= size)
    => LET t == hist[1][1]
           s == hist[1][2]
           N == Len(hist)
       IN  /\ s \in DOMAIN indexes
           /\ DOMAIN indexes[s] = t .. (t + N - 1)
           /\ Meta(Store)[s].Count = N

\* C5 as stated: with max_per_source = 2 and size = 2, after Put b@1, a@2,
\* a@3, a@4 source a holds [3, 4], source b holds [1] and Expired = 1.
C5_PerSourceEviction ==
    (/\ maxPerSource = 2
     /\ size = 2
     /\ hist = << <<1, "b">>, <<2, "a">>, <<3, "a">>, <<4, "a">> >>)
    => /\ "a" \in DOMAIN indexes
       /\ DOMAIN indexes["a"] = {3, 4}
       /\ "b" \in DOMAIN indexes
       /\ DOMAIN indexes["b"] = {1}
       /\ metrics.Expired = 1

\* The envelopes of index q.index that Get's arguments select, in ascending
\* order of timestamp
RECURSIVE Reverse(_)
Reverse(sq) == IF sq = <<>> THEN <<>> ELSE Append(Reverse(Tail(sq)), Head(sq))

Matching(q) ==
    IF q.index \notin DOMAIN indexes THEN <<>>
    ELSE LET t == indexes[q.index]
             ks == {k \in DOMAIN t :
                      /\ q.start <= k
                      /\ k < q.end
                      /\ (q.envelopeType = Nil \/ t[k].e.kind = q.envelopeType)}
             asc == SortedSeq(ks)
             ordered == IF q.descending THEN Reverse(asc) ELSE asc
         IN  [i \in 1 .. Len(ordered) |-> t[ordered[i]].e]

MinInt(a, b) == IF a <= b THEN a ELSE b

\* C2: Get returns only envelopes stored in index s with lo <= t < hi, in
\* strictly ascending order of timestamp, strictly descending when asked.
C2_GetRange ==
    last.op = "Get" =>
        LET q == last.q
            res == last.res
        IN  /\ \A i \in 1 .. Len(res) :
                  /\ q.start <= res[i].Timestamp
                  /\ res[i].Timestamp < q.end
                  /\ q.index \in DOMAIN indexes
                  /\ res[i].Timestamp \in DOMAIN indexes[q.index]
                  /\ indexes[q.index][res[i].Timestamp].e = res[i]
            /\ \A i \in 1 .. Len(res) - 1 :
                  IF q.descending
                  THEN res[i].Timestamp > res[i + 1].Timestamp
                  ELSE res[i].Timestamp < res[i + 1].Timestamp

\* An ascending Get returned an envelope at the start of its range while the
\* index also holds an envelope at the end of the range, which it left out.
C2_Witness ==
    /\ last.op = "Get"
    /\ ~last.q.descending
    /\ Len(last.res) >= 1
    /\ last.res[1].Timestamp = last.q.start
    /\ last.q.end \in DOMAIN indexes[last.q.index]

\* C3 as stated: for every limit, Get returns exactly the first
\* min(limit, number of matches) matching envelopes in the requested
\* direction.
C3_Limit ==
    last.op = "Get" =>
        LET m == Matching(last.q)
        IN  /\ Len(last.res) = MinInt(last.q.limit, Len(m))
            /\ last.res = SubSeq(m, 1, Len(last.res))

\* C9: for limit >= 1, Get with a type filter returns the first limit
\* in-range envelopes of that type, with a nil filter the first limit in-range
\* envelopes of any type; an envelope the filter rejects does not use up the
\* limit.
C9_TypeFilter ==
    (last.op = "Get" /\ last.q.limit >= 1) =>
        LET m == Matching(last.q)
        IN  last.res = SubSeq(m, 1, MinInt(last.q.limit, Len(m)))

\* A filtered Get with limit 1 skipped an older in-range envelope of another
\* type and returned a newer one of the requested type.
C9_Witness ==
    /\ last.op = "Get"
    /\ last.q.envelopeType # Nil
    /\ last.q.limit = 1
    /\ ~last.q.descending
    /\ Len(last.res) = 1
    /\ \E k \in DOMAIN indexes[last.q.index] :
          /\ last.q.start <= k
          /\ k < last.res[1].Timestamp
          /\ indexes[last.q.index][k].e.kind # last.q.envelopeType

\* C10: Meta lists exactly the sources that hold envelopes, each with its
\* number of envelopes, its minimum and maximum timestamp and its expired
\* counter; the counts add up to the store's count, the oldest timestamp is
\* the key the oldest-value tree files the index under, and no source's expired
\* counter ever decreases.
MetaAgrees(m) ==
    /\ DOMAIN m = {s \in Sources : s \in DOMAIN indexes /\ DOMAIN indexes[s] # {}}
    /\ \A s \in DOMAIN m :
          /\ m[s].Count = Cardinality(DOMAIN indexes[s])
          /\ m[s].Count >= 1
          /\ \A k \in DOMAIN indexes[s] :
                m[s].OldestTimestamp <= k /\ k <= m[s].NewestTimestamp
          /\ m[s].OldestTimestamp \in DOMAIN indexes[s]
          /\ m[s].NewestTimestamp \in DOMAIN indexes[s]
          /\ m[s].OldestTimestamp \in DOMAIN oldestValueTree
          /\ \E i \in 1 .. Len(oldestValueTree[m[s].OldestTimestamp]) :
                oldestValueTree[m[s].OldestTimestamp][i] = s
          /\ m[s].Expired = expired[s]
    /\ SumOver([s \in DOMAIN m |-> m[s].Count], DOMAIN m) = count

IndexesFiled ==
    {oldestValueTree[k][i] : <<k, i>> \in
        {<<k, i>> \in (DOMAIN oldestValueTree) \X (1 .. Cardinality(Sources)) :
            i <= Len(oldestValueTree[k])}}

C11_IndexIffEnvelopes ==
    /\ \A s \in DOMAIN indexes : Size(indexes[s]) >= 1
    /\ IndexesFiled = DOMAIN indexes
    /\ last.op = "Put" =>
          LET added == [e |-> last.e, index |-> last.index]
          IN  /\ added \notin last.truncated =>
                    /\ last.index \in DOMAIN indexes
                    /\ last.e.Timestamp \in DOMAIN indexes[last.index]
              /\ (added \in last.truncated /\ last.preSize = 0) =>
                    last.index \notin DOMAIN indexes
    /\ last.op \in {"Put", "Prune"} =>
          \A w \in last.truncated :
              w.index \in DOMAIN indexes =>
                  w.e.Timestamp \notin DOMAIN indexes[w.index]

\* A Put added the only envelope of its source, truncate removed that very
\* envelope as the global oldest and deleted the new index again, while the
\* other source keeps its index.
C11_Witness ==
    /\ last.op = "Put"
    /\ ~panicked
    /\ last.preSize = 0
    /\ [e |-> last.e, index |-> last.index] \in last.truncated
    /\ last.index \notin DOMAIN indexes
    /\ DOMAIN indexes # {}

\* ------------------------------------------------------------------------
\* Properties of the node
\* ------------------------------------------------------------------------
\* The mapping in force after k installations
MappingAt(k) == IF k = 0 THEN {DefaultTable[1]} ELSE installed[k]

\* The nodes that own hash h in mapping m
OwnersOf(m, h) == {r.Node : r \in {x \in m : x.Start <= h /\ h <= x.End}}

SeqRange(sq) == {sq[i] : i \in 1 .. Len(sq)}

Ids(sq) == {sq[i].Timestamp : i \in 1 .. Len(sq)}

\* The envelopes on their way to the peer: in a worker's bucket, in the
\* diode, in the batcher or in a SendRequest written to the peer
Forwarded ==
    UNION {Ids(handlers[h].bucket) : h \in Handlers}
      \cup {ring.buffer[x].data.Timestamp :
               x \in {y \in DOMAIN ring.buffer : ring.buffer[y] # NilBucket}}
      \cup Ids(batcher)
      \cup UNION {Ids(emitted[i].Batch) : i \in 1 .. Len(emitted)}
      \cup SeqRange(ringLog.pushed)

InStore(x) ==
    /\ journal[x].SourceId \in DOMAIN indexes
    /\ x \in DOMAIN indexes[journal[x].SourceId]

Decided(x) == journal[x].outcome # "pending"

\* C12: an envelope of a SendRequest with local_only = true never enters a
\* bucket, the diode, the batcher or a SendRequest to the peer, whatever the
\* routing table; it is put into the local store exactly when the table gives
\* its source to this node and is dropped otherwise, and the store holds no
\* envelope of a source the node did not own when it arrived.
C12_LocalOnly ==
    /\ \A x \in 1 .. Len(journal) :
          journal[x].localOnly =>
              /\ x \notin Forwarded
              /\ journal[x].outcome \in {"pending", "put", "drop"}
              /\ Decided(x) =>
                    /\ journal[x].outcome = "put"
                          <=> localIdx \in OwnersOf(MappingAt(journal[x].atEpoch),
                                                    hasher[journal[x].SourceId])
                    /\ journal[x].outcome = "put" <=> InStore(x)
    /\ \A s \in DOMAIN indexes : \A k \in DOMAIN indexes[s] :
          /\ journal[k].SourceId = s
          /\ journal[k].node = localIdx

\* A local-only request with one envelope this node owns and one the peer
\* owns has been handled: the first is in the store, the second was dropped,
\* and nothing was forwarded.
C12_Witness ==
    /\ \A h \in Handlers : handlers[h].pc = "idle"
    /\ \E x, y \in 1 .. Len(journal) :
          /\ journal[x].localOnly /\ journal[y].localOnly
          /\ journal[x].req = journal[y].req
          /\ journal[x].outcome = "put" /\ InStore(x)
          /\ journal[y].outcome = "drop" /\ journal[y].node = 1
    /\ Forwarded = {}

\* C13: every SendRequest BatchedIngressClient.write sends to the peer,
\* delivered or not, has LocalOnly = true.
C13_ForwardedLocalOnly ==
    \A i \in 1 .. Len(emitted) : emitted[i].LocalOnly = TRUE

\* The peer has received a forwarded SendRequest with two envelopes.
C13_Witness ==
    \E i \in 1 .. Len(emitted) :
        /\ emitted[i].ok
        /\ Len(emitted[i].Batch) = 2
        /\ \A k \in 1 .. 2 : ~journal[emitted[i].Batch[k].Timestamp].localOnly

\* C15: every Lookup made for an envelope returns the owner of the source's
\* hash in one complete mapping: the one installed when the Lookup ran, which
\* is the mapping in force when the request arrived or one installed by a
\* SetRanges since; never a node of no mapping, never no node.
C15_LookupAtomic ==
    \A x \in 1 .. Len(journal) :
        Decided(x) =>
            /\ journal[x].node \in NodeIndexes
            /\ journal[x].epoch <= journal[x].atEpoch
            /\ journal[x].atEpoch <= Len(installed)
            /\ OwnersOf(MappingAt(journal[x].atEpoch), hasher[journal[x].SourceId])
                  = {journal[x].node}

\* One request carried two envelopes of the same source, a SetRanges was
\* installed between their Lookups, and the two were routed to different
\* nodes, each by a complete table.
C15_Witness ==
    \E x, y \in 1 .. Len(journal) :
        /\ journal[x].req = journal[y].req
        /\ journal[x].SourceId = journal[y].SourceId
        /\ Decided(x) /\ Decided(y)
        /\ journal[x].atEpoch < journal[y].atEpoch
        /\ journal[x].node # journal[y].node

\* The mapping that gives the whole ring to this node
FullLocal == {[Node |-> localIdx, Start |-> 0, End |-> HashMax]}

\* C17: a request that arrives after a successful SetRanges is routed by that
\* mapping or a later one; when every mapping in force since the request
\* arrived gives the full range to this node, each of its envelopes (sent with
\* local_only = false, whatever its source) goes into the local store and none
\* is forwarded to or received by the peer.
C17_RoutesAfterSetRanges ==
    \A x \in 1 .. Len(journal) :
        /\ Decided(x) =>
              \E k \in journal[x].epoch .. Len(installed) :
                  journal[x].node \in OwnersOf(MappingAt(k), hasher[journal[x].SourceId])
        /\ (\A k \in journal[x].epoch .. Len(installed) : MappingAt(k) = FullLocal) =>
              /\ journal[x].outcome \in {"pending", "put"}
              /\ Decided(x) => InStore(x)
              /\ x \notin Forwarded

\* After Split was replaced by the full range on this node, a request with
\* local_only = false brought an envelope of each source, and both are in the
\* local store while the peer has received nothing.
C17_Witness ==
    /\ Len(installed) = 2
    /\ installed[2] = FullLocal
    /\ \E x, y \in 1 .. Len(journal) :
          /\ journal[x].req = journal[y].req
          /\ ~journal[x].localOnly
          /\ journal[x].epoch = 2
          /\ journal[x].SourceId = "a" /\ journal[y].SourceId = "b"
          /\ InStore(x) /\ InStore(y)
    /\ emitted = <<>>

\* C18: a worker inside BatchedIngressClient.Send can always take its next
\* step, whatever the diode holds and whatever became of the flusher's RPCs,
\* and the call returns an empty SendResponse and a nil error.
C18_SendNeverBlocks ==
    \A h \in Handlers :
        /\ handlers[h].pc = "set" => ENABLED SetRead(h)
        /\ handlers[h].pc = "store" => ENABLED SetStore(h)
        /\ handlers[h].ret.err = Nil
        /\ handlers[h].ret.resp \in {Nil, "SendResponse{}"}

\* Send has returned its empty response after setting more envelopes into
\* the diode than it has slots, with nothing read by the flusher.
C18_Witness ==
    \E h \in Handlers :
        /\ handlers[h].pc = "idle"
        /\ handlers[h].ret.resp = "SendResponse{}"
        /\ ringLog.overflowed
        /\ Len(ringLog.pushed) > RingCap
        /\ ringLog.taken = <<>>

\* Nothing is in progress: every worker is idle, the diode yields nothing
\* more and the batcher is empty
Quiescent ==
    /\ \A h \in Handlers : handlers[h].pc = "idle"
    /\ ~TryNext(ring).ok
    /\ TryNext(ring).ring = ring
    /\ batcher = <<>>

\* The place of x in sq, 0 when absent
PosIn(sq, x) ==
    LET at == {i \in 1 .. Len(sq) : sq[i] = x}
    IN  IF at = {} THEN 0 ELSE MinOf(at)

PeerIds == [i \in 1 .. Len(PeerEnvelopes) |-> PeerEnvelopes[i].Timestamp]

\* C14 as stated, for a healthy peer and a diode that never overflowed: with
\* the ring split at the midpoint, once nothing is in progress every envelope
\* sent with local_only = false whose source hashes into the peer's range has
\* been received by the peer exactly once, envelopes of one request in the
\* order of the request, and is not in this node's store.
C14_RoutedToPeer ==
    (/\ Quiescent
     /\ installed = <<Split>>
     /\ dropped = 0
     /\ ~ringLog.overflowed
     /\ \A i \in 1 .. Len(emitted) : emitted[i].ok)
    => /\ \A x \in 1 .. Len(journal) :
             (~journal[x].localOnly /\ hasher[journal[x].SourceId] > Mid) =>
                 /\ Cardinality({i \in 1 .. Len(PeerIds) : PeerIds[i] = x}) = 1
                 /\ ~InStore(x)
       /\ \A x, y \in 1 .. Len(journal) :
             (/\ x < y
              /\ journal[x].req = journal[y].req
              /\ PosIn(PeerIds, x) > 0
              /\ PosIn(PeerIds, y) > 0)
             => PosIn(PeerIds, x) < PosIn(PeerIds, y)

\* C19 as stated: once more envelopes have been set into the diode than it has
\* slots and nothing is in progress any more, the dropped counter equals the
\* number of envelopes that were set and never reached the batcher, the
\* envelope set last is not among them, and the batcher received the others in
\* the order they were set.
C19_DropOldest ==
    (Quiescent /\ ringLog.overflowed) =>
        LET pushed == ringLog.pushed
            taken == ringLog.taken
            lost == SeqRange(pushed) \ SeqRange(taken)
        IN  /\ dropped = Cardinality(lost)
            /\ pushed[Len(pushed)] \in SeqRange(taken)
            /\ \A i, k \in 1 .. Len(taken) :
                  i < k => PosIn(pushed, taken[i]) < PosIn(pushed, taken[k])

\* C16: SetRanges answers without error exactly when every hash of the ring
\* lies in one and only one range of the mapping; it then publishes the
\* mapping, and otherwise it answers InvalidArgument and the routing table and
\* the installed mappings are what they were before the call.
CoversOnce(m) ==
    \A h \in HashSpace : Cardinality({r \in m : r.Start <= h /\ h <= r.End}) = 1

C16_SetRangesValidates ==
    last.op = "SetRanges" =>
        /\ last.err = Nil <=> CoversOnce(last.m)
        /\ last.err # Nil => last.err = "InvalidArgument"
        /\ IF CoversOnce(last.m)
           THEN /\ installed # <<>>
                /\ installed[Len(installed)] = last.m
                /\ \A s \in Sources : OwnersOf(last.m, hasher[s]) = {Lookup(table, s)}
           ELSE /\ table = last.before
                /\ \A s \in Sources :
                      OwnersOf(MappingAt(Len(installed)), hasher[s]) = {Lookup(table, s)}

\* With Split installed, a SetRanges whose two ranges overlap was rejected
\* and Lookup still answers by Split.
C16_Witness ==
    /\ last.op = "SetRanges"
    /\ last.err = "InvalidArgument"
    /\ \E r1, r2 \in last.m : r1 # r2 /\ r1.Start <= r2.Start /\ r2.Start <= r1.End
    /\ installed = <<Split>>
    /\ table = NewTable(Split)
    /\ Lookup(table, "a") = 0
    /\ Lookup(table, "b") = 1

\* C20: an Egress.Read for a source the installed mapping gives to the peer
\* adds exactly one ReadRequest to those the peer has received, with the same
\* source id, start time, end time and envelope type, and, the RPC succeeding,
\* returns the envelopes the peer answered; a Read for a source of this node
\* sends the peer nothing and returns what the local store holds for the
\* query.
C20_EgressRead ==
    last.op = "Read" =>
        LET q == last.q
            n == Len(peerReads)
        IN  IF OwnersOf(MappingAt(Len(installed)), hasher[q.index]) = {localIdx}
            THEN /\ n = last.peerReadsBefore
                 /\ last.err = Nil
                 /\ last.res = SubSeq(Matching(q), 1, MinInt(q.limit, Len(Matching(q))))
            ELSE /\ n = last.peerReadsBefore + 1
                 /\ peerReads[n].index = q.index
                 /\ peerReads[n].start = q.start
                 /\ peerReads[n].end = q.end
                 /\ peerReads[n].envelopeType = q.envelopeType
                 /\ last.err = Nil => last.res = PeerReadEnvelopes(q)

\* A Read for source b, which Split gives to the peer, was sent to the peer
\* once and returned the peer's envelopes although the local store holds an
\* envelope of b inside the query's range.
C20_Witness ==
    /\ last.op = "Read"
    /\ last.q.index = "b"
    /\ installed = <<Split>>
    /\ last.err = Nil
    /\ Len(peerReads) = 1
    /\ last.res = PeerReadEnvelopes(last.q)
    /\ Matching(last.q) # <<>>

\* C21: Egress.Meta never fails; its map has exactly the sources of the local
\* store's Meta and of every peer that answered, each entry being the one a
\* node gave for that source; a failed peer's entries are left out and the
\* local store's Meta is returned
C21_EgressMetaMerges ==
    last.op = "EgressMeta" =>
        LET local == Meta(Store)
            fromPeer == IF last.peerOk THEN last.peerMeta ELSE [s \in {} |-> 0]
        IN  /\ last.err = Nil
            /\ DOMAIN last.res = (DOMAIN local) \cup (DOMAIN fromPeer)
            /\ \A s \in DOMAIN last.res :
                  \/ s \in DOMAIN local /\ last.res[s] = local[s]
                  \/ s \in DOMAIN fromPeer /\ last.res[s] = fromPeer[s]
            /\ ~last.peerOk => last.res = local

C21_Witness ==
    /\ last.op = "EgressMeta"
    /\ ~last.peerOk
    /\ DOMAIN last.peerMeta = {"b"}
    /\ DOMAIN last.res = {"a"}
    /\ last.err = Nil

\* C22 as stated, for envelopes that nothing gave up by design (no overflow
\* of the diode, no failed RPC, stores large enough): once nothing is on its
\* way, a Read of a source through either node returns every envelope of
\* that source sent to either node, in ascending timestamp order, and no
\* envelope of another source
C22_ReadableThroughAnyNode ==
    (/\ last.op = "ClusterRead"
     /\ last.settled
     /\ last.lossless
     /\ last.err = Nil)
        => /\ [i \in 1 .. Len(last.res) |-> last.res[i].Timestamp]
                 = SortedSeq(last.sent)
           /\ \A i \in 1 .. Len(last.res) : last.res[i].SourceId = last.q.index

\* The store after the Puts of h, made one after the other
RECURSIVE Replay(_)
Replay(h) ==
    IF h = <<>> THEN EmptyStore
    ELSE LET p == h[Len(h)]
         IN  truncate(PutInsert(Replay(SubSeq(h, 1, Len(h) - 1)),
                                Envelope(p[1], "Log"), p[2]))

\* C23: whatever the interleaving of the workers, the store a Get or a Meta
\* reads is the store left by the Puts completed so far, applied whole and
\* one after the other (no half-applied Put), and the store invariants hold
\* of it: count is the sum of the index sizes, no index is empty or over its
\* cap, count is within size
C23_ThreadSafe ==
    ReadDone =>
        LET x == last.observed
            y == Replay(last.puts)
        IN  /\ x.indexes = y.indexes
            /\ x.oldestValueTree = y.oldestValueTree
            /\ x.count = y.count
            /\ x.Expired = y.Expired
            /\ x.expired = y.expired
            /\ x.count = SumOver([s \in DOMAIN x.indexes |-> Size(x.indexes[s])],
                                 DOMAIN x.indexes)
            /\ \A s \in DOMAIN x.indexes :
                  Size(x.indexes[s]) >= 1 /\ Size(x.indexes[s]) <= maxPerSource
            /\ x.count <= size

\* A Get returned an envelope from a store in which two Puts had completed
\* and a truncation had removed an envelope, the other worker having taken
\* a third Put as far as counting it
C23_Witness ==
    /\ last.op = "Get"
    /\ Len(last.puts) = 2
    /\ last.observed.Expired >= 1
    /\ Len(last.res) >= 1
    /\ metrics.Ingress = 3

C27_TruncationBoundedByQuota ==
    (size >= 1 /\ maxPerSource >= 1) =>
        /\ last.op = "Prune" => Cardinality(last.truncated) <= last.quota
        /\ last.op = "Put" => last.truncated = {} /\ count = last.truncFrom

\* C28: the flusher emits the pending batch when it reaches BatchSize
\* envelopes or when the interval has passed with envelopes pending: every
\* request sent to the peer holds between 1 and BatchSize envelopes, a batch
\* of BatchSize envelopes is never kept, and no batch is kept for more than
\* BatchSize - 1 + IntervalSleeps turns of the flusher, whether or not
\* further envelopes arrive
C28_FlushBySizeOrInterval ==
    /\ \A i \in 1 .. Len(emitted) :
          Len(emitted[i].Batch) >= 1 /\ Len(emitted[i].Batch) <= BatchSize
    /\ Len(batcher) < BatchSize
    /\ clock.held <= BatchSize - 1 + IntervalSleeps

\* A batch was emitted at full size, and a later one of a single envelope
\* by an idle turn of the flusher once the interval had passed
C28_Witness ==
    /\ Len(emitted) = 2
    /\ Len(emitted[1].Batch) = BatchSize
    /\ Len(emitted[2].Batch) = 1
    /\ batcher = <<>>
    /\ Len(ringLog.taken) = BatchSize + 1
    /\ clock.age = 1

\* The timestamps of every envelope handed to write, delivered or not, in
\* order
RECURSIVE Written(_)
Written(reqs) ==
    IF reqs = <<>> THEN <<>>
    ELSE [k \in 1 .. Len(Head(reqs).Batch) |-> Head(reqs).Batch[k].Timestamp]
             \o Written(Tail(reqs))

\* C29: a failed RPC to the peer does not stall the client and is not
\* retried: every envelope the flusher took from the ring was handed to
\* write exactly once, in order, or is in the pending batch; after a write,
\* failed or not, the pending batch holds only envelopes taken since
C29_FailedBatchDiscarded ==
    Written(emitted) \o [k \in 1 .. Len(batcher) |-> batcher[k].Timestamp]
        = ringLog.taken

\* The first request to the peer failed; the flusher went on and a later
\* request delivered an envelope that arrived after the failure
C29_Witness ==
    /\ Len(emitted) = 2
    /\ ~emitted[1].ok
    /\ emitted[2].ok
    /\ Len(emitted[1].Batch) = BatchSize
    /\ emitted[2].Batch[1].Timestamp = BatchSize + 1
    /\ PeerEnvelopes = emitted[2].Batch

\* C30: graceful shutdown: Close returns only when no request is in
\* progress, and once it has returned the flushers have stopped: no further
\* SendRequest goes to the peer
C30_GracefulShutdown ==
    [][/\ closing' = "closed" => \A h \in Handlers : handlers'[h].pc = "idle"
       /\ closing = "closed" => emitted' = emitted]_vars

\* C31: once setupRouting has built the proxies, each client list has one
\* client per node address, the client at position i targets address i,
\* position nodeIndex holds the in-process client of the local store and is
\* the localIdx given to the proxies, and every other position holds the
\* batched (ingress) or remote (egress) client of that peer, whatever the
\* outcome of the dials
C31_ClientsAligned ==
    setup.pc = "serving" =>
        /\ Len(setup.ingressClients) = setup.n
        /\ Len(setup.egressClients) = setup.n
        /\ setup.localIdx = setup.nodeIndex
        /\ \A i \in 0 .. setup.n - 1 :
              /\ setup.ingressClients[i + 1] =
                    [kind |-> IF i = setup.nodeIndex THEN "local" ELSE "batched",
                     addr |-> i]
              /\ setup.egressClients[i + 1] =
                    [kind |-> IF i = setup.nodeIndex THEN "local" ELSE "remote",
                     addr |-> i]

\* C32: after RemoveFromGroup(name, sourceId) the source is no member of the
\* group, whatever AddToGroup calls came before; the group is gone exactly
\* when no member is left, and removing from a group that does not exist
\* changes nothing
C32_RemovedFromGroup ==
    last.op = "RemoveFromGroup" =>
        /\ last.name \in DOMAIN mgr.m =>
              /\ mgr.m[last.name].sourceIDs # <<>>
              /\ \A i \in 1 .. Len(mgr.m[last.name].sourceIDs) :
                    mgr.m[last.name].sourceIDs[i] # last.sourceId
        /\ last.name \notin DOMAIN last.before.m => mgr = last.before

\* C33: a Read of an unknown group answers NotFound and calls neither
\* AddRequester nor Get; when Read calls Get for a requester, that requester
\* is registered for the group in the manager and in the DataStorage, for
\* every requester timeout
C33_GetForRegisteredRequester ==
    last.op = "GroupRead" =>
        /\ last.err = "NotFound" => ~last.addRequester /\ ~last.get
        /\ last.get => last.inManager /\ last.inStorage

\* C34: the requesters the manager records for a group are exactly those
\* registered in the DataStorage for it, a group that does not exist having
\* none
C34_RequestersInStep ==
    \A g \in Groups :
        {r \in Requesters : <<g, r>> \in mgr.reg}
            = (IF g \in DOMAIN mgr.m THEN DOMAIN mgr.m[g].requesterIDs ELSE {})

\* C35: envelope conservation: in a store of size and per-source cap at
\* least 1, after any sequence of Puts and pruning cycles the Ingress counter
\* equals count plus the Expired counter
C35_Conservation ==
    (size >= 1 /\ maxPerSource >= 1 /\ ~panicked) =>
        metrics.Ingress = count + metrics.Expired

\* C36: envelope conservation in the batched ingress client: once nothing is
\* in progress, whatever the interleaving of the workers and the flusher, the
\* envelopes set into the diode are as many as those counted as dropped plus
\* those handed to write; no envelope is handed to write twice, and those
\* handed to write are in the order in which they were set
C36_ClientConservation ==
    Quiescent =>
        LET pushed == ringLog.pushed
            sent == Written(emitted)
        IN  /\ Len(pushed) = dropped + Len(sent)
            /\ \A i \in 1 .. Len(sent) : PosIn(pushed, sent[i]) > 0
            /\ \A i, k \in 1 .. Len(sent) :
                  i < k => PosIn(pushed, sent[i]) < PosIn(pushed, sent[k])

\* C37: IsAuthorized answers true only if CAPI confirmed the access of that
\* very token to that very source id, in this call or in an earlier call
\* whose cached approval has not been pruned; an approval cached for one
\* pair never authorizes another pair, and a denial is never cached
C37_AuthorizedOnlyIfConfirmed ==
    last.op = "IsAuthorized" =>
        /\ last.res =>
              \/ last.confirmed
              \/ last.cached = {<<last.clientToken, last.sourceId>>}
        /\ ~last.res =>
              CacheKey(last.clientToken, last.sourceId) \notin DOMAIN capi.tokenCache

\* The envelopes in the store, each with its index
Stored == UNION {{indexes[s][k] : k \in DOMAIN indexes[s]} : s \in DOMAIN indexes}

\* C38: in a store of size and per-source cap at least 1, a Put of an
\* envelope no older than any envelope the store held keeps that envelope,
\* whatever the Put evicted or truncated: right after the Put a Get of its
\* source over a range holding its timestamp returns it
C38_NewestRetained ==
    (/\ last.op = "Put"
     /\ size >= 1 /\ maxPerSource >= 1 /\ ~panicked
     /\ \A w \in Stored \cup last.evicted \cup last.truncated :
           w.e.Timestamp <= last.e.Timestamp)
    => \A bias \in {0, 1} :
          GetResult([index |-> last.index, start |-> last.e.Timestamp,
                     end |-> last.e.Timestamp + 1, envelopeType |-> Nil,
                     limit |-> 1, descending |-> FALSE], bias) = <<last.e>>

\* A Put whose envelope ties with the oldest envelope of another source made
\* truncate remove that other envelope and kept its own
C38_Witness ==
    /\ last.op = "Put"
    /\ size >= 1 /\ maxPerSource >= 1 /\ ~panicked
    /\ \A w \in Stored \cup last.evicted \cup last.truncated :
          w.e.Timestamp <= last.e.Timestamp
    /\ \E w \in last.truncated :
          w.e.Timestamp = last.e.Timestamp /\ w.index # last.index
    /\ [e |-> last.e, index |-> last.index] \in Stored

\* Where the oldest-value tree files an index: the key and the position in
\* the key's list of every entry naming it
Filings(s) ==
    {f \in UNION {{<<k, i>> : i \in 1 .. Len(oldestValueTree[k])} :
                     k \in DOMAIN oldestValueTree} :
        oldestValueTree[f[1]][f[2]] = s}

\* C39: after every Put, truncation included, the oldest-value tree holds
\* exactly one entry for each index of the store, under the smallest
\* timestamp that index holds, and no entry for a source without an index or
\* for an empty index
C39_OldestValueTreeFiled ==
    last.op = "Put" =>
        /\ \A s \in DOMAIN indexes :
              /\ Size(indexes[s]) >= 1
              /\ Cardinality(Filings(s)) = 1
              /\ \A f \in Filings(s) : f[1] = Left(indexes[s])
        /\ \A s \in Sources \ DOMAIN indexes : Filings(s) = {}

\* A Put left two indexes filed under one key although its truncation took
\* the oldest envelope of the index it wrote to and refiled that index under
\* its next timestamp
C39_Witness ==
    /\ last.op = "Put" /\ ~panicked
    /\ \E w \in last.truncated :
          /\ w.index = last.index
          /\ w.index \in DOMAIN indexes
          /\ w.e.Timestamp < Left(indexes[w.index])
    /\ \E k \in DOMAIN oldestValueTree : Len(oldestValueTree[k]) >= 2

====
